---------------------------- MODULE Spec2Model ----------------------------

(***************************************************************************)
(* Model of the Ateema budget-allocation and pricing core.                 *)
(*                                                                         *)
(* Conventions                                                             *)
(*  - Money is an integer number of ticks; one cent is Cent ticks, so that *)
(*    prices finer than a cent exist and round(x, 2) is a real rounding.   *)
(*    Arithmetic is exact (the code uses binary floating point).           *)
(*  - A Python str is a sequence of pieces (words, blanks, punctuation,    *)
(*    single digits).  Every keyword the code searches for is a sequence   *)
(*    of whole pieces, so the code's substring test is the contiguous      *)
(*    subsequence test Contains.  The piece "--" stands for the em dash.   *)
(*  - A Python dict is a sequence of <<key, value>> pairs in insertion     *)
(*    order where the code iterates it, and a function where it only       *)
(*    looks keys up.                                                       *)
(***************************************************************************)
EXTENDS Integers, Sequences, FiniteSets, TLC

(***************************************************************************)
(* Strings                                                                 *)
(***************************************************************************)
\* the capitalised pieces of the model's strings, each with its lower-case form
LowerPairs ==
    { <<"Summit", "summit">>, <<"Booth", "booth">>, <<"Basic", "basic">>,
      <<"Illinois", "illinois">>, <<"CVB", "cvb">>, <<"DMO", "dmo">>,
      <<"Premium", "premium">>, <<"Tourist", "tourist">>, <<"Industry", "industry">>,
      <<"Out", "out">>, <<"X", "x">>, <<"Email", "email">>, <<"Blast", "blast">>,
      <<"Rate", "rate">>, <<"Other", "other">>, <<"Hotel", "hotel">>,
      <<"Meetup", "meetup">>, <<"Chicago", "chicago">>, <<"Does", "does">>,
      <<"Reels", "reels">>, <<"Concierge", "concierge">>, <<"Guide", "guide">>,
      <<"Planner", "planner">>, <<"Eblast", "eblast">>, <<"Program", "program">>,
      <<"Intro", "intro">>, <<"Standard", "standard">>,
      <<"Ambassador", "ambassador">>, <<"Plus", "plus">>, <<"Ohio", "ohio">>,
      <<"Expo", "expo">>, <<"Stand", "stand">> }

LowerMap ==
    [p \in {q[1] : q \in LowerPairs} |-> (CHOOSE q \in LowerPairs : q[1] = p)[2]]

\* str.lower()
Lower(s) == [i \in 1..Len(s) |-> IF s[i] \in DOMAIN LowerMap THEN LowerMap[s[i]] ELSE s[i]]

UpperMap ==
    [p \in {"x", "base", "Retail", "retail"} |->
        CASE p = "x"      -> "X"
          [] p = "base"   -> "BASE"
          [] p = "Retail" -> "RETAIL"
          [] p = "retail" -> "RETAIL"]

\* str.upper()
Upper(s) == [i \in 1..Len(s) |-> IF s[i] \in DOMAIN UpperMap THEN UpperMap[s[i]] ELSE s[i]]

\* k in s
Contains(s, k) == \E i \in 0..(Len(s) - Len(k)) : SubSeq(s, i + 1, i + Len(k)) = k

\* s.startswith(k)
StartsWith(s, k) == Len(k) <= Len(s) /\ SubSeq(s, 1, Len(k)) = k

RECURSIVE LStrip(_)
LStrip(s) == IF s # <<>> /\ Head(s) = " " THEN LStrip(Tail(s)) ELSE s

RECURSIVE RStrip(_)
RStrip(s) == IF s # <<>> /\ s[Len(s)] = " " THEN RStrip(SubSeq(s, 1, Len(s) - 1)) ELSE s

\* str.strip()
Strip(s) == RStrip(LStrip(s))

(***************************************************************************)
(* Money                                                                   *)
(***************************************************************************)
\* ticks per cent: the resolution round(x, 2) rounds to
Cent == 5

\* a whole-dollar amount, in ticks
USD(n) == n * 100 * Cent

\* round(x, 2) for x >= 0 (no tie exists: Cent is odd)
Round2(x) == ((x + (Cent \div 2)) \div Cent) * Cent

(***************************************************************************)
(* Python values                                                           *)
(***************************************************************************)
None == [tag |-> "None"]
Num(v) == [tag |-> "num", v |-> v]
Dict(items) == [tag |-> "dict", items |-> items]
\* a value float() cannot convert
BadStr == [tag |-> "str"]
\* an exception leaving the function
Raised == [tag |-> "raise"]

Date(y, m, d) == [tag |-> "date", year |-> y, month |-> m, day |-> d]


(***************************************************************************)
(* pricing.py: price points of an option                                   *)
(***************************************************************************)
Digits == {"0", "1", "2", "3", "4", "5", "6", "7", "8", "9"}

DigitVal(c) ==
    CASE c = "0" -> 0 [] c = "1" -> 1 [] c = "2" -> 2 [] c = "3" -> 3 [] c = "4" -> 4
      [] c = "5" -> 5 [] c = "6" -> 6 [] c = "7" -> 7 [] c = "8" -> 8 [] c = "9" -> 9

RECURSIVE DigitsToInt(_)
DigitsToInt(ds) ==
    IF ds = <<>> THEN 0
    ELSE DigitsToInt(SubSeq(ds, 1, Len(ds) - 1)) * 10 + DigitVal(ds[Len(ds)])

\* sort keys carry three decimals of the parsed number
KeyScale == 1000

\* "".join(ch for ch in lbl if ch.isdigit() or ch == ".")
NumChars(lbl) == SelectSeq(lbl, LAMBDA c : c \in Digits \cup {"."})

\* float(num), or float("inf") when float() raises
LabelNumber(lbl) ==
    LET num  == NumChars(lbl)
        dots == {i \in 1..Len(num) : num[i] = "."}
    IN  IF Cardinality(dots) > 1 \/ Len(num) = Cardinality(dots)
        THEN [inf |-> TRUE, v |-> 0]
        ELSE LET dot  == IF dots = {} THEN Len(num) + 1 ELSE CHOOSE i \in dots : TRUE
                 ip   == SubSeq(num, 1, dot - 1)
                 fp   == SubSeq(num, dot + 1, Len(num)) \o <<"0", "0", "0">>
             IN  [inf |-> FALSE,
                  v   |-> DigitsToInt(ip) * KeyScale + DigitsToInt(SubSeq(fp, 1, 3))]

\* _key(lbl, price) < _key(lbl2, price2), tuples compared lexicographically
KeyLess(a, b) ==
    LET x == LabelNumber(a[1])
        y == LabelNumber(b[1])
    IN  \/ ~x.inf /\ y.inf
        \/ ~x.inf /\ ~y.inf /\ x.v < y.v
        \/ x.inf = y.inf /\ x.v = y.v /\ a[2] < b[2]

\* one step of a stable sort: t goes behind every item that is not greater
RECURSIVE InsertByKey(_, _)
InsertByKey(sorted, t) ==
    IF sorted = <<>> THEN <<t>>
    ELSE IF KeyLess(t, sorted[Len(sorted)])
         THEN Append(InsertByKey(SubSeq(sorted, 1, Len(sorted) - 1), t), sorted[Len(sorted)])
         ELSE Append(sorted, t)

RECURSIVE SortByKey(_)
SortByKey(items) ==
    IF items = <<>> THEN <<>>
    ELSE InsertByKey(SortByKey(SubSeq(items, 1, Len(items) - 1)), items[Len(items)])

BASE == <<"base">>

\* a variant of lines 60-69 that looks at the plan map first
ShapeItemsPlanFirst(opt) ==
    IF opt.price_usd_by_plan.tag = "dict" THEN opt.price_usd_by_plan.items
    ELSE IF opt.price_usd.tag = "dict" THEN opt.price_usd.items
    ELSE IF opt.price_usd.tag = "num" THEN << <<BASE, opt.price_usd.v>> >>
    ELSE IF opt.pricing.tag = "dict" THEN opt.pricing.items
    ELSE <<>>

\* the pricing shape price_points reads, in the code's priority
ShapeItems(opt) ==
    IF opt.price_usd.tag = "dict" THEN opt.price_usd.items
    ELSE IF opt.price_usd_by_plan.tag = "dict" THEN opt.price_usd_by_plan.items
    ELSE IF opt.price_usd.tag = "num" THEN << <<BASE, opt.price_usd.v>> >>
    ELSE IF opt.pricing.tag = "dict" THEN opt.pricing.items
    ELSE <<>>

price_points(opt) == SortByKey(ShapeItems(opt))

(***************************************************************************)
(* pricing.py: line price of a tier                                        *)
(***************************************************************************)
Max(a, b) == IF a >= b THEN a ELSE b

\* float(dur_raw), 1.0 when float() raises
Duration(dur_raw) == IF dur_raw.tag = "num" THEN dur_raw.v ELSE 1

\* a variant of line 97 without the floor of one quarter
line_price_unclamped(product, tier_label, base_price) ==
    IF DOMAIN product.duration_quarter_map = {} THEN base_price
    ELSE LET lbl     == Upper(tier_label)
             dur_raw == IF lbl \in DOMAIN product.duration_quarter_map
                        THEN product.duration_quarter_map[lbl] ELSE Num(1)
         IN  base_price * Duration(dur_raw)

effective_line_price(product, tier_label, base_price) ==
    IF DOMAIN product.duration_quarter_map = {} THEN base_price
    ELSE LET lbl     == Upper(tier_label)
             dur_raw == IF lbl \in DOMAIN product.duration_quarter_map
                        THEN product.duration_quarter_map[lbl] ELSE Num(1)
         IN  base_price * Max(Duration(dur_raw), 1)


(***************************************************************************)
(* pricing.py: seasonal windows                                            *)
(***************************************************************************)
mmdd_of(d) == d.month * 100 + d.day

Window(label, start, end) == [label |-> label, start |-> start, end |-> end]

\* a variant of lines 15-19 whose spring window opens on April 1
EXACT_WINDOWS_FROM_APRIL ==
    << Window("4/15-6/14", 401, 614),
       Window("6/15-8/31", 615, 831),
       Window("9/1-9/30", 901, 930) >>

EXACT_WINDOWS ==
    << Window("4/15-6/14", 415, 614),
       Window("6/15-8/31", 615, 831),
       Window("9/1-9/30", 901, 930) >>

NAMED_WINDOWS ==
    << Window("Before Valentine's Day", 101, 213),
       Window("After Valentine's Day", 214, 414),
       Window("Before Halloween", 1001, 1031),
       Window("Before Christmas", 1101, 1224) >>

\* the first window of the family that is in the table and contains mmdd; 0 if none
FirstWindow(windows, seasonal_map, mmdd) ==
    LET hits == {i \in 1..Len(windows) :
                    /\ windows[i].label \in DOMAIN seasonal_map
                    /\ windows[i].start <= mmdd
                    /\ mmdd <= windows[i].end}
    IN  IF hits = {} THEN 0 ELSE CHOOSE i \in hits : \A j \in hits : i <= j

\* float(seasonal_map[label].get(option_name, None)): float(None) raises TypeError
WindowPrice(seasonal_map, label, option_name) ==
    IF option_name \in DOMAIN seasonal_map[label]
    THEN Num(seasonal_map[label][option_name])
    ELSE Raised

booth_season_for_date(meta, option_name, chosen_date) ==
    LET seasonal_map == meta.seasonal_price_windows
        mmdd         == mmdd_of(chosen_date)
        e            == FirstWindow(EXACT_WINDOWS, seasonal_map, mmdd)
        n            == FirstWindow(NAMED_WINDOWS, seasonal_map, mmdd)
    IN  IF DOMAIN seasonal_map = {} THEN None
        ELSE IF e # 0 THEN WindowPrice(seasonal_map, EXACT_WINDOWS[e].label, option_name)
        ELSE IF n # 0 THEN WindowPrice(seasonal_map, NAMED_WINDOWS[n].label, option_name)
        ELSE None

(***************************************************************************)
(* pricing.py: advertiser overrides and the effective unit price           *)
(***************************************************************************)
EMAIL_BLAST == <<"Email", " ", "Blast">>
BLAST_EMAIL_CONCIERGE == <<"Blast", " ", "Email", " ", "-", " ", "concierge">>
PLANNER_EBLAST == <<"Planner", " ", "Eblast">>
AMBASSADOR_PROGRAM == <<"Ambassador", " ", "Program">>
STANDARD_AMBASSADOR == <<"Standard", " ", "Ambassador", " ", "Program">>
AMBASSADOR_CONCIERGE_INTRO == <<"Ambassador", " ", "-", " ", "Concierge", " ", "Intro">>

NoOverride == [tag |-> "None"]
Override(price, label) == [tag |-> "override", price |-> price, label |-> label]

\* advertiser_overrides without the gate of line 185
advertiser_overrides_ungated(product_name, option_name, base_price, tier, is_advertiser) ==
    LET name == Strip(product_name)
        opt  == Strip(option_name)
    IN  IF name = EMAIL_BLAST /\ Contains(opt, BLAST_EMAIL_CONCIERGE)
        THEN Override(USD(450), "Existing advertiser contract rate")
        ELSE IF name = AMBASSADOR_PROGRAM /\ StartsWith(opt, STANDARD_AMBASSADOR)
        THEN Override(USD(2950), "Existing advertiser - with any campaign rate")
        ELSE IF name = AMBASSADOR_PROGRAM /\ StartsWith(opt, AMBASSADOR_CONCIERGE_INTRO)
        THEN Override(USD(2750), "Existing advertiser - with any campaign rate")
        ELSE NoOverride

advertiser_overrides(product_name, option_name, base_price, tier, is_advertiser) ==
    LET name == Strip(product_name)
        opt  == Strip(option_name)
    IN  IF ~is_advertiser THEN NoOverride
        ELSE IF name = EMAIL_BLAST /\ Contains(opt, BLAST_EMAIL_CONCIERGE)
             THEN Override(USD(450), "Existing advertiser contract rate")
        ELSE IF name = AMBASSADOR_PROGRAM
             THEN IF StartsWith(opt, STANDARD_AMBASSADOR)
                  THEN Override(USD(2950), "Existing advertiser - with any campaign rate")
                  ELSE IF StartsWith(opt, AMBASSADOR_CONCIERGE_INTRO)
                  THEN Override(USD(2750), "Existing advertiser - with any campaign rate")
                  ELSE NoOverride
        ELSE NoOverride

\* Num(price), or Raised when the seasonal lookup raises
get_effective_unit_price(product_name, option_name, base_price, meta, chosen_date, is_advertiser) ==
    LET seasonal == IF chosen_date.tag = "date"
                    THEN booth_season_for_date(meta, option_name, chosen_date)
                    ELSE None
        eff      == IF seasonal.tag = "num" THEN seasonal.v ELSE base_price
        adv      == advertiser_overrides(product_name, option_name, eff, <<>>, is_advertiser)
    IN  IF seasonal.tag = "raise" THEN Raised
        ELSE IF adv.tag = "override" THEN Num(adv.price)
        ELSE Num(eff)


(***************************************************************************)
(* models.py: records.  An option is                                       *)
(*   [name, price_usd, price_usd_by_plan, pricing]                         *)
(* with name <<>> (key absent) or <<s>>; a ProductRecord is                *)
(*   [name, price_options, duration_quarter_map].                          *)
(***************************************************************************)
Absent == [tag |-> "absent"]

Option(name, price_usd, price_usd_by_plan, pricing) ==
    [name |-> name, price_usd |-> price_usd,
     price_usd_by_plan |-> price_usd_by_plan, pricing |-> pricing]

ProductRecord(name, price_options, duration_quarter_map) ==
    [name |-> name, price_options |-> price_options,
     duration_quarter_map |-> duration_quarter_map]

\* opt.get("name", default)
OptName(opt, default) == IF opt.name = <<>> THEN default ELSE opt.name[1]

(***************************************************************************)
(* summit_rules.py                                                         *)
(***************************************************************************)
BASIC_BOOTH_ADVERTISER ==
    <<"Basic", " ", "Booth", " ", "--", " ", "advertiser", " ", "rate">>
BASIC_BOOTH_NON_ADVERTISER ==
    <<"Basic", " ", "Booth", " ", "--", " ", "non", "-", "advertiser", " ", "rate">>
\* the same option as a catalog spells it without the hyphen
BASIC_BOOTH_NON_ADVERTISER_SPACED ==
    <<"Basic", " ", "Booth", " ", "--", " ", "non", " ", "advertiser", " ", "rate">>
ILLINOIS_CVB == <<"Illinois", " ", "CVB">>
DMO_OUT_OF_ILLINOIS == <<"DMO", " ", "(", "out", " ", "of", " ", "Illinois", ")">>

\* _contains_all(text, *keywords)
contains_all(text, keywords) ==
    \A i \in 1..Len(keywords) : keywords[i] = <<>> \/ Contains(Lower(text), Lower(keywords[i]))

\* _contains_any(text, *keywords)
contains_any(text, keywords) ==
    \E i \in 1..Len(keywords) : keywords[i] # <<>> /\ Contains(Lower(text), Lower(keywords[i]))

\* is_label(label, key)
is_label(label, key) == Contains(Lower(label), Lower(key))

\* "summit" in name.lower() and "booth" in name.lower()
IsSummitBooth(name) ==
    Contains(Lower(name), <<"summit">>) /\ Contains(Lower(name), <<"booth">>)

\* [o for o in opts if keep(o)]
Keep(opts, keep(_)) == SelectSeq(opts, keep)

\* a variant of lines 36-41 that ignores the flag
BasicBoothKeyAdvertiser(is_advertiser) == BASIC_BOOTH_ADVERTISER

\* the key of the small-business default; the flag is "True", "False" or "None"
BasicBoothKey(is_advertiser) ==
    IF is_advertiser = "True" THEN BASIC_BOOTH_ADVERTISER
    ELSE IF is_advertiser = "False" THEN BASIC_BOOTH_NON_ADVERTISER
    ELSE BASIC_BOOTH_ADVERTISER

\* line 27
CvbProfile(txt) == contains_all(txt, << <<"cvb">>, <<"illinois">> >>)

\* line 31
DmoProfile(txt) ==
    contains_any(txt, << <<"dmo">>, <<"out", "-", "of", "-", "state">>,
                         <<"out", " ", "of", " ", "state">>, <<"outside", " ", "illinois">> >>)

\* lines 28, 32, 42 and 44: the list comprehensions
CvbOptions(opts) == Keep(opts, LAMBDA o : is_label(OptName(o, <<>>), ILLINOIS_CVB))
DmoOptions(opts) == Keep(opts, LAMBDA o : is_label(OptName(o, <<>>), DMO_OUT_OF_ILLINOIS))
ExactOptions(opts, is_advertiser) ==
    Keep(opts, LAMBDA o : o.name = <<BasicBoothKey(is_advertiser)>>)
BasicOptions(opts) ==
    Keep(opts, LAMBDA o : Contains(Lower(OptName(o, <<>>)), <<"basic", " ", "booth">>))

\* the option list filter_summit_booth leaves in `out`, from rec's options
SummitOptions(opts, profile_text, is_advertiser) ==
    IF CvbProfile(profile_text) THEN CvbOptions(opts)
    ELSE IF DmoProfile(profile_text) THEN DmoOptions(opts)
    ELSE IF ExactOptions(opts, is_advertiser) # <<>> THEN ExactOptions(opts, is_advertiser)
    ELSE BasicOptions(opts)

\* the value of the record filter_summit_booth returns
filter_summit_booth(rec, profile_text, is_advertiser) ==
    IF ~IsSummitBooth(rec.name) THEN rec
    ELSE [rec EXCEPT !.price_options = SummitOptions(rec.price_options, profile_text, is_advertiser)]

(***************************************************************************)
(* catalog.py.  A category is <<>> (None) or <<s>>; a dict of products is  *)
(* a sequence of <<name, value>> pairs in insertion order.                 *)
(***************************************************************************)
normalize_category(raw) ==
    IF raw = <<>> \/ raw[1] = <<>> THEN <<>>
    ELSE LET r == Lower(Strip(raw[1]))
         IN  IF Contains(r, <<"tourist">>) THEN << <<"tourist">> >>
             ELSE IF Contains(r, <<"industry">>) THEN << <<"industry">> >>
             ELSE <<r>>

NoMeta == [category |-> <<>>, seasonal_price_windows |-> <<>>]

\* meta.get(name, {}) and (meta.get(name) or {})
MetaOf(meta, name) == IF name \in DOMAIN meta THEN meta[name] ELSE NoMeta

CategoryOf(meta, name) == normalize_category(MetaOf(meta, name).category)

\* a variant of lines 20-23 whose second branch is an else
partition_by_category_else(catalog, meta) ==
    [tourist  |-> SelectSeq(catalog, LAMBDA e : CategoryOf(meta, e[1]) = << <<"tourist">> >>),
     industry |-> SelectSeq(catalog, LAMBDA e : CategoryOf(meta, e[1]) # << <<"tourist">> >>)]

\* the pair of pools partition_by_category returns
partition_by_category(catalog, meta) ==
    [tourist  |-> SelectSeq(catalog, LAMBDA e : CategoryOf(meta, e[1]) = << <<"tourist">> >>),
     industry |-> SelectSeq(catalog, LAMBDA e : CategoryOf(meta, e[1]) = << <<"industry">> >>)]

(***************************************************************************)
(* budget.py and the sub-budgets of run_fill_to_cap                        *)
(***************************************************************************)
\* a variant of lines 113-114 that divides the percentage as an integer
SubBudgetIntegerPct(total_budget, pct) == total_budget * (pct \div 100)

\* total_budget * (pct / 100.0), the product taken in two parts to stay in range
SubBudget(total_budget, pct) ==
    (total_budget \div 100) * pct + ((total_budget % 100) * pct) \div 100

\* the sub-budget is a whole number of ticks
ExactSplit(total_budget, pct) == ((total_budget % 100) * pct) % 100 = 0

\* the budgets compute_pools reports
compute_pools(total_budget, tourist_pct, industry_pct) ==
    [tourist  |-> Round2(SubBudget(total_budget, tourist_pct)),
     industry |-> Round2(SubBudget(total_budget, industry_pct))]


(***************************************************************************)
(* upgrader.py: the candidates of a product.  A candidate is               *)
(* <<opt_name, lbl, eff_base, line>>.                                      *)
(***************************************************************************)
\* a variant of lines 30-42 that skips no option
EligibleAll(pname, opt_name, is_advertiser) == TRUE

\* the option is not skipped by the Summit Booth advertiser rule
Eligible(pname, opt_name, is_advertiser) ==
    LET low     == Lower(opt_name)
        has_non == Contains(low, <<"non", "-", "advertiser">>)
                       \/ Contains(low, <<"non", " ", "advertiser">>)
        has_adv == Contains(low, <<"advertiser">>) /\ ~has_non
    IN  IF IsSummitBooth(pname)
        THEN IF is_advertiser THEN ~has_non ELSE ~has_adv
        ELSE TRUE

\* lines 46-47 for one price point: <<opt_name, lbl, eff, line>> with eff = Num(eff_base),
\* or eff = Raised and no line when get_effective_unit_price raises
Priced(pname, product, opt_name, lbl, base_price, m, chosen_date, is_advertiser) ==
    LET eff == get_effective_unit_price(pname, opt_name, base_price, m,
                                        chosen_date, is_advertiser)
    IN  <<opt_name, lbl, eff,
          IF eff.tag = "num" THEN effective_line_price(product, lbl, eff.v) ELSE 0>>

\* lines 27-47 for one option: its price points priced, in price_points order
OptionPriced(pname, product, opt, m, chosen_date, is_advertiser) ==
    LET opt_name == OptName(opt, pname)
        pts      == price_points(opt)
    IN  IF ~Eligible(pname, opt_name, is_advertiser) THEN <<>>
        ELSE [k \in 1..Len(pts) |->
                 Priced(pname, product, opt_name, pts[k][1], pts[k][2], m,
                        chosen_date, is_advertiser)]

\* the priced points of the product's first n options, in encounter order
RECURSIVE PricedUpTo(_, _, _, _, _, _)
PricedUpTo(pname, product, n, m, chosen_date, is_advertiser) ==
    IF n = 0 THEN <<>>
    ELSE PricedUpTo(pname, product, n - 1, m, chosen_date, is_advertiser)
         \o OptionPriced(pname, product, product.price_options[n], m,
                         chosen_date, is_advertiser)

\* lines 26-47 and 68-88: every eligible (option, tier) of the product, priced
AllPriced(pname, product, meta, chosen_date, is_advertiser) ==
    PricedUpTo(pname, product, Len(product.price_options), MetaOf(meta, pname),
               chosen_date, is_advertiser)

\* enumerating the candidates raises (the exception leaves the allocator)
Raises(priced) == \E k \in 1..Len(priced) : priced[k][3].tag = "raise"

\* the candidates <<opt_name, lbl, eff_base, line>> of an enumeration that did not raise
AsCandidates(priced) ==
    [k \in 1..Len(priced) |-> <<priced[k][1], priced[k][2], priced[k][3].v, priced[k][4]>>]

CandidatesRaise(pname, product, meta, chosen_date, is_advertiser) ==
    Raises(AllPriced(pname, product, meta, chosen_date, is_advertiser))

Candidates(pname, product, meta, chosen_date, is_advertiser) ==
    AsCandidates(AllPriced(pname, product, meta, chosen_date, is_advertiser))

\* a variant of line 50 in which a later candidate at the same line replaces `best`
RECURSIVE BestIndexLastTie(_, _)
BestIndexLastTie(cands, n) ==
    IF n = 0 THEN 0
    ELSE LET b == BestIndexLastTie(cands, n - 1)
         IN  IF b = 0 \/ cands[n][4] <= cands[b][4] THEN n ELSE b

\* lines 50-52: the index of `best` after the first n candidates (0: best is None)
RECURSIVE BestIndex(_, _)
BestIndex(cands, n) ==
    IF n = 0 THEN 0
    ELSE LET b == BestIndex(cands, n - 1)
         IN  IF b = 0 \/ cands[n][4] < cands[b][4] THEN n ELSE b

\* one step of upgrades.sort(key=line), stable
RECURSIVE InsertByLine(_, _)
InsertByLine(sorted, c) ==
    IF sorted = <<>> THEN <<c>>
    ELSE IF c[4] < sorted[Len(sorted)][4]
         THEN Append(InsertByLine(SubSeq(sorted, 1, Len(sorted) - 1), c), sorted[Len(sorted)])
         ELSE Append(sorted, c)

RECURSIVE SortByLine(_)
SortByLine(cs) ==
    IF cs = <<>> THEN <<>>
    ELSE InsertByLine(SortByLine(SubSeq(cs, 1, Len(cs) - 1)), cs[Len(cs)])

\* a variant of line 89 that takes every candidate of another line price
UpgradesUnequal(cands, cur_line) == SortByLine(SelectSeq(cands, LAMBDA c : c[4] # cur_line))

\* a variant of line 89 that also takes candidates at the current line
UpgradesOrEqual(cands, cur_line) ==
    SortByLine(SelectSeq(cands, LAMBDA c : c[4] >= cur_line))

\* lines 67-92: the candidates above the current line, cheapest first
Upgrades(cands, cur_line) == SortByLine(SelectSeq(cands, LAMBDA c : c[4] > cur_line))

\* a variant of line 95 without the comparison
AffordableAlways(sub, cur_line, new_line, cap) == TRUE

\* a variant of line 95 that lets a pool spend twice its sub-budget
AffordableTwice(sub, cur_line, new_line, cap) == sub - cur_line + new_line <= 2 * cap

\* a variant of line 95 that compares the new line alone with the budget
AffordableLineOnly(sub, cur_line, new_line, cap) == new_line <= cap

\* line 95
Affordable(sub, cur_line, new_line, cap) == sub - cur_line + new_line <= cap

\* a variant of lines 94-99 that adopts the dearest affordable upgrade
LastAffordable(ups, sub, cur_line, cap) ==
    LET ok == {k \in 1..Len(ups) : Affordable(sub, cur_line, ups[k][4], cap)}
    IN  IF ok = {} THEN 0 ELSE CHOOSE k \in ok : \A j \in ok : k >= j

\* lines 94-99: the index of the upgrade adopted, 0 if none
FirstAffordable(ups, sub, cur_line, cap) ==
    LET ok == {k \in 1..Len(ups) : Affordable(sub, cur_line, ups[k][4], cap)}
    IN  IF ok = {} THEN 0 ELSE CHOOSE k \in ok : \A j \in ok : k <= j


(***************************************************************************)
(* The catalog the allocation runs are drawn from                          *)
(***************************************************************************)
L1X == <<"1", "X">>
L2X == <<"2", "X">>
L3X == <<"3", "X">>

SUMMIT_BOOTH == <<"Summit", " ", "--", " ", "Booth">>
ILLINOIS_CVB_RATE == <<"Illinois", " ", "CVB", " ", "rate">>
PREMIUM_BOOTH == <<"Premium", " ", "Booth">>
CHICAGO_DOES_REELS == <<"Chicago", " ", "Does", " ", "Reels">>
REELS_STANDARD == <<"Reels", " ", "Standard">>
REELS_PLUS == <<"Reels", " ", "Plus">>
HOTEL_MEETUP == <<"Hotel", " ", "Meetup">>
HOTEL_MEETUP_2026 == <<"Hotel", " ", "Meetup", " ", "2", "0", "2", "6">>
CONCIERGE_GUIDE == <<"Concierge", " ", "Guide">>

Scalar(name, price) == Option(<<name>>, Num(price), Absent, Absent)

P_EMAIL ==
    ProductRecord(EMAIL_BLAST,
        << Scalar(BLAST_EMAIL_CONCIERGE, USD(750)),
           Option(<<PLANNER_EBLAST>>,
                  Dict(<< <<L3X, USD(450)>>, <<L1X, USD(500)>> >>), Absent, Absent) >>,
        (L1X :> Num(1)) @@ (L3X :> Num(3)))

P_AMBASSADOR ==
    ProductRecord(AMBASSADOR_PROGRAM,
        << Scalar(STANDARD_AMBASSADOR, USD(3200)),
           Scalar(AMBASSADOR_CONCIERGE_INTRO, USD(3000)) >>,
        <<>>)

P_SUMMIT ==
    ProductRecord(SUMMIT_BOOTH,
        << Scalar(BASIC_BOOTH_NON_ADVERTISER, USD(1800)),
           Scalar(BASIC_BOOTH_ADVERTISER, USD(1500)),
           Scalar(BASIC_BOOTH_NON_ADVERTISER_SPACED, USD(1700)),
           Scalar(ILLINOIS_CVB_RATE, USD(1200)),
           Scalar(DMO_OUT_OF_ILLINOIS, USD(2500)),
           Option(<<PREMIUM_BOOTH>>, Absent,
                  Dict(<< <<L1X, USD(2000)>>, <<L2X, USD(1100)>> >>), Absent) >>,
        (L2X :> BadStr) @@ (L1X :> Num(0)))

\* two options tie on the cheapest line; one price is finer than a cent
P_REELS ==
    ProductRecord(CHICAGO_DOES_REELS,
        << Option(<<REELS_STANDARD>>, Absent, Absent,
                  Dict(<< <<L2X, USD(100) + 3>>, <<L1X, USD(100)>> >>)),
           Option(<<REELS_PLUS>>, Absent, Dict(<< <<L1X, USD(100)>> >>), Absent),
           Option(<<>>, Num(USD(300)), Absent, Absent) >>,
        <<>>)

\* no option of this product has a pricing shape
P_HOTEL ==
    ProductRecord(HOTEL_MEETUP,
        << Option(<<HOTEL_MEETUP_2026>>, Absent, Absent, Absent) >>, <<>>)

P_GUIDE ==
    ProductRecord(CONCIERGE_GUIDE, << Scalar(CONCIERGE_GUIDE, USD(200)) >>, <<>>)

Entry(rec) == <<rec.name, rec>>

Catalogs ==
    { << Entry(P_EMAIL), Entry(P_REELS), Entry(P_HOTEL), Entry(P_AMBASSADOR),
         Entry(P_SUMMIT), Entry(P_GUIDE) >>,
      << Entry(P_SUMMIT), Entry(P_REELS), Entry(P_AMBASSADOR), Entry(P_EMAIL) >>,
      << Entry(P_REELS), Entry(P_EMAIL) >> }

Category(s) == <<s>>

\* the Summit Booth table prices every option in spring, one option in October
SummitSeasons ==
    ("4/15-6/14" :>
        ((BASIC_BOOTH_NON_ADVERTISER :> USD(1600)) @@ (BASIC_BOOTH_ADVERTISER :> USD(1300))
         @@ (ILLINOIS_CVB_RATE :> USD(1000)) @@ (DMO_OUT_OF_ILLINOIS :> USD(2200))
         @@ (PREMIUM_BOOTH :> USD(1900))))
    @@ ("Before Halloween" :> (BASIC_BOOTH_ADVERTISER :> USD(1400)))

Meta(category, seasons) == [category |-> category, seasonal_price_windows |-> seasons]

\* Concierge Guide has an unrecognized category
Metas ==
    { (EMAIL_BLAST :> Meta(Category(<<"Tourist">>), <<>>))
      @@ (CHICAGO_DOES_REELS :> Meta(Category(<<" ", "tourist", "-", "facing">>), <<>>))
      @@ (HOTEL_MEETUP :> Meta(Category(<<"Tourist">>), <<>>))
      @@ (AMBASSADOR_PROGRAM :> Meta(Category(<<"Industry">>), <<>>))
      @@ (SUMMIT_BOOTH :> Meta(Category(<<"Industry", " ">>), SummitSeasons))
      @@ (CONCIERGE_GUIDE :> Meta(Category(<<"Other">>), <<>>)) }

NoDate == None

Dates == {NoDate, Date(2025, 5, 1), Date(2025, 10, 15)}

\* client profile texts: plain, a convention bureau, an out-of-state DMO
ProfileTexts ==
    { <<"small", " ", "shop">>,
      <<"Illinois", " ", "county", " ", "CVB">>,
      <<"DMO", " ", "from", " ", "Ohio">> }

\* the catalog apply_summit_rules returns, by value
SummitRulesApplied(catalog, profile_text, is_advertiser) ==
    [k \in 1..Len(catalog) |->
        IF IsSummitBooth(catalog[k][1])
        THEN <<catalog[k][1],
               filter_summit_booth(catalog[k][2], profile_text,
                                   IF is_advertiser THEN "True" ELSE "False")>>
        ELSE catalog[k]]

\* the catalogs handed to the partitioner: raw, or narrowed for a profile
PreparedCatalogs(is_advertiser) ==
    Catalogs \cup {SummitRulesApplied(c, t, is_advertiser) : c \in Catalogs, t \in ProfileTexts}

\* (total_budget, tourist_pct, industry_pct): ample, tight, zero and sub-cent
\* budgets, and the 45000 60/40 scenario
BudgetInputs ==
    { <<USD(10000), 50, 50>>, <<USD(5000), 60, 40>>, <<USD(2000), 50, 50>>,
      <<USD(2000), 100, 0>>, <<2 * (USD(600) + 3), 50, 50>>, <<0, 50, 50>>,
      <<USD(45000), 60, 40>>, <<USD(600) + 3, 100, 0>> }

(***************************************************************************)
(* pricing.py: apply_discounts.  The result is [price, label], the label   *)
(* <<>> for None or <<text>>.                                              *)
(***************************************************************************)
CHICAGO_DOES_INTERACTIVE_MAP == <<"Chicago", " ", "Does", " ", "Interactive", " ", "Map">>
ANNUAL_LISTING == <<"Annual", " ", "Listing">>
EARLY_BIRD_TEXT ==
    <<"Early", " ", "Bird", " ", "Rate", " ", "-", " ", "Ends", " ", "August", " ", "1">>
RETAIL_RATE == <<"Retail", " ", "Rate">>

Discounted(price, label) == [price |-> price, label |-> label]

\* a <= b for two dates
DateNotAfter(a, b) ==
    \/ a.year < b.year
    \/ a.year = b.year /\ a.month < b.month
    \/ a.year = b.year /\ a.month = b.month /\ a.day <= b.day

\* a < b for two dates
DateLess(a, b) ==
    \/ a.year < b.year
    \/ a.year = b.year /\ a.month < b.month
    \/ a.year = b.year /\ a.month = b.month /\ a.day < b.day

\* n / d cut to 2 decimals
Trunc2Ratio(n, d) == ((n \div d) \div Cent) * Cent

\* round(n / d, 2) for n >= 0 in ticks (the inputs have no tie)
Round2Ratio(n, d) == ((2 * n + d * Cent) \div (2 * d * Cent)) * Cent

\* the condition of lines 241-245
IsHotelMeetup2026(name, opt, billing_date) ==
    /\ billing_date.tag = "date"
    /\ name = HOTEL_MEETUP
    /\ Contains(opt, HOTEL_MEETUP_2026)

\* lines 246-263
early_bird(tier, final_price, billing_date) ==
    IF Contains(tier, EARLY_BIRD_TEXT)
    THEN IF DateLess(billing_date, Date(billing_date.year, 8, 1))
         THEN Discounted(USD(2395), <<"Early Bird Rate - Ends August 1">>)
         ELSE Discounted(USD(2595), <<>>)
    ELSE Discounted(final_price, <<>>)

\* lines 276-303: the closed table of per-product rules
closed_rules(name, opt, base_price, has_other_products, prepay_full_year) ==
    IF name = EMAIL_BLAST /\ Contains(opt, BLAST_EMAIL_CONCIERGE)
    THEN IF has_other_products
         THEN Discounted(USD(450), <<"Contract bundle price (with other products)">>)
         ELSE Discounted(USD(750), <<>>)
    ELSE IF name = EMAIL_BLAST /\ Contains(opt, PLANNER_EBLAST)
    THEN Discounted(base_price, <<>>)
    ELSE IF name = CHICAGO_DOES_REELS
    THEN IF has_other_products
         THEN Discounted(USD(895), <<"With other purchase discount">>)
         ELSE Discounted(USD(995), <<>>)
    ELSE IF name = AMBASSADOR_PROGRAM
    THEN IF StartsWith(opt, STANDARD_AMBASSADOR)
         THEN IF has_other_products
              THEN Discounted(USD(2950), <<"With Any Campaign rate">>)
              ELSE Discounted(USD(3200), <<>>)
         ELSE IF StartsWith(opt, AMBASSADOR_CONCIERGE_INTRO)
         THEN IF has_other_products
              THEN Discounted(USD(2750), <<"With Any Campaign rate">>)
              ELSE Discounted(USD(3000), <<>>)
         ELSE Discounted(base_price, <<>>)
    ELSE IF name = CHICAGO_DOES_INTERACTIVE_MAP
    THEN IF prepay_full_year
         THEN Discounted(Round2Ratio(base_price * 9, 10), <<"Prepay entire year -- 10% off">>)
         ELSE Discounted(base_price, <<>>)
    ELSE Discounted(base_price, <<>>)

apply_discounts(product_name, option_name, base_price, tier, has_other_products, prepay_full_year, is_advertiser, billing_date) ==
    LET name == Strip(product_name)
        opt  == Strip(option_name)
        adv  == advertiser_overrides(name, opt, base_price, tier, is_advertiser)
    IN  IF IsHotelMeetup2026(name, opt, billing_date)
        THEN early_bird(tier, base_price, billing_date)
        ELSE IF adv.tag = "override" THEN Discounted(adv.price, <<adv.label>>)
        ELSE closed_rules(name, opt, base_price, has_other_products, prepay_full_year)

(***************************************************************************)
(* State                                                                   *)
(***************************************************************************)
VARIABLES
    \* arguments of run_fill_to_cap
    total_budget, tourist_pct, industry_pct, t_set, i_set, meta, chosen_date, is_advertiser,
    \* the running greedy_fill_to_cap: its pool and its locals
    pool, budget, products, picks, subtotal, improved, idx, pc,
    \* history: the subtotal Phase A left in each pool of the run
    baseline,
    \* results of run_fill_to_cap
    t_sel, i_sel, grand_total,
    \* repeated runs: the run number and the record of the first run
    run, first,
    \* a call of one of the pure functions: its arguments and its result
    call,
    \* the object store of apply_summit_rules: object id -> ProductRecord
    heap

inputVars == <<total_budget, tourist_pct, industry_pct, t_set, i_set, meta,
               chosen_date, is_advertiser>>
localVars == <<pool, budget, products, picks, subtotal, improved, idx, pc, baseline>>
resultVars == <<t_sel, i_sel, grand_total>>
allocVars == <<inputVars, localVars, resultVars, run, first>>
vars == <<allocVars, call, heap>>

NoCall == [fn |-> "none"]
EmptyHeap == [records |-> <<>>, lists |-> <<>>]
NoSelection == [tag |-> "None"]

\* Selection(picks=picks, subtotal=round(subtotal, 2))
Selection(ps, sub) == [tag |-> "Selection", picks |-> ps, subtotal |-> Round2(sub)]

\* the number of runs of run_fill_to_cap a behaviour compares
MaxRuns == 2

(***************************************************************************)
(* greedy_fill_to_cap, one loop iteration per step                         *)
(***************************************************************************)
NoBaseline == [tourist |-> 0, industry |-> 0]

\* a variant of lines 19-20 whose subtotal outlives the call
EnterAllocatorKeepsSubtotal(p, cap, prods) ==
    /\ pool' = p
    /\ budget' = cap
    /\ products' = prods
    /\ picks' = <<>>
    /\ subtotal' = subtotal
    /\ improved' = FALSE
    /\ idx' = 1
    /\ baseline' = IF p = "tourist" THEN NoBaseline ELSE baseline
    /\ pc' = "baseline"

\* lines 19-20, on entry with the pool's budget and products
EnterAllocator(p, cap, prods) ==
    /\ pool' = p
    /\ budget' = cap
    /\ products' = prods
    /\ picks' = <<>>
    /\ subtotal' = 0
    /\ improved' = FALSE
    /\ idx' = 1
    /\ baseline' = IF p = "tourist" THEN NoBaseline ELSE baseline
    /\ pc' = "baseline"

\* lines 113-116: the sub-budgets, and the tourist pool's allocation starts
StartRun ==
    /\ pc = "start"
    /\ EnterAllocator("tourist", SubBudget(total_budget, tourist_pct), t_set)
    /\ UNCHANGED <<inputVars, resultVars, run, first, call, heap>>

\* a variant that finds no product in picks
PickIndexAbsent(ps, pname) == 0

\* the position of pname in picks, 0 if absent
PickIndex(ps, pname) ==
    IF \E k \in 1..Len(ps) : ps[k][1] = pname
    THEN CHOOSE k \in 1..Len(ps) : ps[k][1] = pname
    ELSE 0

\* a variant of lines 57 and 97 that keeps picks as a list of entries
SetPickAppend(ps, pname, pick) == Append(ps, <<pname, pick>>)

\* picks[pname] = pick
SetPick(ps, pname, pick) ==
    IF PickIndex(ps, pname) = 0 THEN Append(ps, <<pname, pick>>)
    ELSE [ps EXCEPT ![PickIndex(ps, pname)] = <<pname, pick>>]

\* lines 23-57, one product: the cheapest candidate becomes the pick
BaselinePick ==
    /\ pc = "baseline"
    /\ idx <= Len(products)
    /\ LET pname   == products[idx][1]
           product == products[idx][2]
           priced  == AllPriced(pname, product, meta, chosen_date, is_advertiser)
       IN  /\ ~Raises(priced)
           /\ LET cands == AsCandidates(priced)
                  b     == BestIndex(cands, Len(cands))
              IN  IF b # 0
                  THEN /\ subtotal' = subtotal
                              + effective_line_price(product, cands[b][2], cands[b][3])
                       /\ picks' = SetPick(picks, pname,
                                           <<cands[b][1], cands[b][2], cands[b][3]>>)
                  ELSE UNCHANGED <<subtotal, picks>>
    /\ idx' = idx + 1
    /\ UNCHANGED <<inputVars, resultVars, run, first, call, heap,
                   pool, budget, products, improved, pc, baseline>>

\* line 46: get_effective_unit_price raises, and the exception leaves run_fill_to_cap
BaselineRaise ==
    /\ pc = "baseline"
    /\ idx <= Len(products)
    /\ CandidatesRaise(products[idx][1], products[idx][2], meta, chosen_date, is_advertiser)
    /\ pc' = "raised"
    /\ UNCHANGED <<inputVars, resultVars, run, first, call, heap,
                   pool, budget, products, picks, subtotal, improved, idx, baseline>>

\* lines 60-62: Phase A is over, the first pass of the upgrade loop starts
EnterUpgradeLoop ==
    /\ pc = "baseline"
    /\ idx > Len(products)
    /\ baseline' = [baseline EXCEPT ![pool] = subtotal]
    /\ improved' = FALSE
    /\ idx' = 1
    /\ pc' = "upgrade"
    /\ UNCHANGED <<inputVars, resultVars, run, first, call, heap,
                   pool, budget, products, picks, subtotal>>

\* the record of the product named pname
ProductOf(prods, pname) == prods[CHOOSE k \in 1..Len(prods) : prods[k][1] = pname][2]

\* a variant of line 65 that takes the pick's unit price for its line
CurLineUnit(prods, ps, k) == ps[k][2][3]

\* lines 63-92 for the idx-th pick: its line and its upgrades, cheapest first
CurLine(prods, ps, k) ==
    effective_line_price(ProductOf(prods, ps[k][1]), ps[k][2][2], ps[k][2][3])

VisitUpgrades(prods, ps, k, m, d, adv) ==
    Upgrades(Candidates(ps[k][1], ProductOf(prods, ps[k][1]), m, d, adv),
             CurLine(prods, ps, k))

\* lines 94-99: the visit adopts the first affordable upgrade
UpgradeAdopt ==
    /\ pc = "upgrade"
    /\ idx <= Len(picks)
    /\ LET cur_line == CurLine(products, picks, idx)
           ups      == VisitUpgrades(products, picks, idx, meta, chosen_date, is_advertiser)
           a        == FirstAffordable(ups, subtotal, cur_line, budget)
       IN  /\ a # 0
           /\ subtotal' = subtotal - cur_line + ups[a][4]
           /\ picks' = SetPick(picks, picks[idx][1], <<ups[a][1], ups[a][2], ups[a][3]>>)
           /\ improved' = TRUE
    /\ idx' = idx + 1
    /\ UNCHANGED <<inputVars, resultVars, run, first, call, heap,
                   pool, budget, products, pc, baseline>>

\* lines 94-99: no upgrade of the product fits, the visit changes nothing
UpgradeSkip ==
    /\ pc = "upgrade"
    /\ idx <= Len(picks)
    /\ FirstAffordable(VisitUpgrades(products, picks, idx, meta, chosen_date, is_advertiser),
                       subtotal, CurLine(products, picks, idx), budget) = 0
    /\ idx' = idx + 1
    /\ UNCHANGED <<inputVars, resultVars, run, first, call, heap,
                   pool, budget, products, picks, subtotal, improved, pc, baseline>>

\* lines 61-62: a pass that changed something is followed by another pass
NextPass ==
    /\ pc = "upgrade"
    /\ idx > Len(picks)
    /\ improved
    /\ improved' = FALSE
    /\ idx' = 1
    /\ UNCHANGED <<inputVars, resultVars, run, first, call, heap,
                   pool, budget, products, picks, subtotal, pc, baseline>>

\* a variant of line 61 that ends the loop after any full pass
ExitLoopAfterAnyPass ==
    /\ pc = "upgrade"
    /\ idx > Len(picks)
    /\ pc' = "return"
    /\ UNCHANGED <<inputVars, resultVars, run, first, call, heap,
                   pool, budget, products, picks, subtotal, improved, idx, baseline>>

\* line 61: a pass that changed nothing ends the loop
ExitLoop ==
    /\ pc = "upgrade"
    /\ idx > Len(picks)
    /\ ~improved
    /\ pc' = "return"
    /\ UNCHANGED <<inputVars, resultVars, run, first, call, heap,
                   pool, budget, products, picks, subtotal, improved, idx, baseline>>

(***************************************************************************)
(* run_fill_to_cap                                                         *)
(***************************************************************************)
\* a variant of lines 116-117 that hands the tourist pool's surplus to the industry pool
ReturnTouristCarriesSurplus ==
    /\ pc = "return"
    /\ pool = "tourist"
    /\ t_sel' = Selection(picks, subtotal)
    /\ EnterAllocator("industry",
                      SubBudget(total_budget, industry_pct) + Max(0, budget - subtotal),
                      i_set)
    /\ UNCHANGED <<inputVars, i_sel, grand_total, run, first, call, heap>>

\* lines 101 and 116-117: the tourist Selection, then the industry pool's allocation
ReturnTourist ==
    /\ pc = "return"
    /\ pool = "tourist"
    /\ t_sel' = Selection(picks, subtotal)
    /\ EnterAllocator("industry", SubBudget(total_budget, industry_pct), i_set)
    /\ UNCHANGED <<inputVars, i_sel, grand_total, run, first, call, heap>>

\* lines 101 and 117-120: the industry Selection and the grand total
ReturnIndustry ==
    /\ pc = "return"
    /\ pool = "industry"
    /\ i_sel' = Selection(picks, subtotal)
    /\ grand_total' = Round2(t_sel.subtotal + Round2(subtotal))
    /\ pc' = "done"
    /\ UNCHANGED <<inputVars, t_sel, run, first, call, heap,
                   pool, budget, products, picks, subtotal, improved, idx, baseline>>


(***************************************************************************)
(* Repeated runs.  A later run gets the inputs of the first run again, or  *)
(* the first run's inputs with one pool's product set or percentage        *)
(* changed; meta, date and advertiser flag stay.                           *)
(***************************************************************************)
FirstRun ==
    [total_budget |-> total_budget, tourist_pct |-> tourist_pct,
     industry_pct |-> industry_pct, t_set |-> t_set, i_set |-> i_set,
     outcome |-> pc, t_sel |-> t_sel, i_sel |-> i_sel, grand_total |-> grand_total]

\* another percentage for a pool
OtherPct(pct) == IF pct = 50 THEN 100 ELSE 50

\* another product set for a pool
OtherSet(s) == IF s = <<>> THEN << Entry(P_GUIDE) >> ELSE Tail(s)

\* (tourist_pct, industry_pct, t_set, i_set) of a later run: the first run's, or with
\* the industry side changed, or with the tourist side changed
Reruns(f) ==
    { <<f.tourist_pct, f.industry_pct, f.t_set, f.i_set>>,
      <<f.tourist_pct, OtherPct(f.industry_pct), f.t_set, OtherSet(f.i_set)>>,
      <<OtherPct(f.tourist_pct), f.industry_pct, OtherSet(f.t_set), f.i_set>> }

Rerun ==
    /\ pc \in {"done", "raised"}
    /\ run < MaxRuns
    /\ run' = run + 1
    /\ first' = IF run = 1 THEN FirstRun ELSE first
    /\ \E r \in Reruns(first') :
        /\ ExactSplit(total_budget, r[1]) /\ ExactSplit(total_budget, r[2])
        /\ tourist_pct' = r[1]
        /\ industry_pct' = r[2]
        /\ t_set' = r[3]
        /\ i_set' = r[4]
    /\ pc' = "start"
    /\ t_sel' = NoSelection
    /\ i_sel' = NoSelection
    /\ grand_total' = 0
    /\ UNCHANGED <<total_budget, meta, chosen_date, is_advertiser, call, heap,
                   pool, budget, products, picks, subtotal, improved, idx, baseline>>

AllocIdle ==
    /\ total_budget = 0 /\ tourist_pct = 0 /\ industry_pct = 0
    /\ t_set = <<>> /\ i_set = <<>> /\ meta = <<>>
    /\ chosen_date = NoDate /\ is_advertiser = FALSE
    /\ pool = "tourist" /\ budget = 0 /\ products = <<>> /\ picks = <<>>
    /\ subtotal = 0 /\ improved = FALSE /\ idx = 1 /\ pc = "idle" /\ baseline = NoBaseline
    /\ t_sel = NoSelection /\ i_sel = NoSelection /\ grand_total = 0
    /\ run = 1 /\ first = NoCall

Init ==
    /\ \E adv \in BOOLEAN, m \in Metas, d \in Dates, b \in BudgetInputs :
        \E c \in PreparedCatalogs(adv) :
            /\ ExactSplit(b[1], b[2]) /\ ExactSplit(b[1], b[3])
            /\ total_budget = b[1]
            /\ tourist_pct = b[2]
            /\ industry_pct = b[3]
            /\ t_set = partition_by_category(c, m).tourist
            /\ i_set = partition_by_category(c, m).industry
            /\ meta = m
            /\ chosen_date = d
            /\ is_advertiser = adv
    /\ pool = "tourist" /\ budget = 0 /\ products = <<>> /\ picks = <<>>
    /\ subtotal = 0 /\ improved = FALSE /\ idx = 1 /\ pc = "start" /\ baseline = NoBaseline
    /\ t_sel = NoSelection /\ i_sel = NoSelection /\ grand_total = 0
    /\ run = 1 /\ first = NoCall
    /\ call = NoCall
    /\ heap = EmptyHeap

Next ==
    \/ StartRun
    \/ BaselinePick
    \/ BaselineRaise
    \/ EnterUpgradeLoop
    \/ UpgradeAdopt
    \/ UpgradeSkip
    \/ NextPass
    \/ ExitLoop
    \/ ReturnTourist
    \/ ReturnIndustry
    \/ Rerun

Spec == Init /\ [][Next]_vars

\* Phase A has a product left to visit: BaselinePick or BaselineRaise is enabled
\* (their remaining guards are complementary)
ProductPending == pc = "baseline" /\ idx <= Len(products)

\* a pass of Phase B has a pick left to visit: UpgradeAdopt or UpgradeSkip is
\* enabled (their remaining guards are complementary)
PickPending == pc = "upgrade" /\ idx <= Len(picks)

\* the interpreter runs a call on: no step of a run is postponed forever.  For the
\* visits of a product, weak fairness is written out with the enabling condition.
FairSpec ==
    /\ Spec
    /\ WF_vars(StartRun)
    /\ WF_vars(EnterUpgradeLoop)
    /\ WF_vars(NextPass)
    /\ WF_vars(ExitLoop)
    /\ WF_vars(ReturnTourist)
    /\ WF_vars(ReturnIndustry)
    /\ ([]<>(~ProductPending) \/ []<><<BaselinePick \/ BaselineRaise>>_vars)
    /\ ([]<>(~PickPending) \/ []<><<UpgradeAdopt \/ UpgradeSkip>>_vars)

(***************************************************************************)
(* Properties of greedy_fill_to_cap and run_fill_to_cap                    *)
(***************************************************************************)
TouristBudget == SubBudget(total_budget, tourist_pct)
IndustryBudget == SubBudget(total_budget, industry_pct)

\* the allocator of the current pool has finished Phase A
InPhaseB == pc \in {"upgrade", "return"}

\* C1 as stated: in every run of greedy_fill_to_cap whose Phase A baseline subtotal
\* is at most the sub-budget, the running subtotal is at most the sub-budget after
\* every upgrade step of Phase B, and so is the subtotal of the returned Selection.
C1_BudgetRespected ==
    /\ (InPhaseB /\ baseline[pool] <= budget) => subtotal <= budget
    /\ (t_sel.tag = "Selection" /\ baseline.tourist <= TouristBudget)
            => t_sel.subtotal <= TouristBudget
    /\ (i_sel.tag = "Selection" /\ baseline.industry <= IndustryBudget)
            => i_sel.subtotal <= IndustryBudget

\* C1, amended: with a Phase A baseline within the sub-budget, the running subtotal
\* is at most the sub-budget after every upgrade step of Phase B; the returned
\* Selection carries that subtotal rounded to 2 decimals, which is at most the
\* sub-budget rounded to 2 decimals, so less than a cent above the sub-budget.
C1_RunningSubtotalWithinBudget ==
    /\ (InPhaseB /\ baseline[pool] <= budget) => subtotal <= budget
    /\ (t_sel.tag = "Selection" /\ baseline.tourist <= TouristBudget)
            => /\ t_sel.subtotal <= Round2(TouristBudget)
               /\ t_sel.subtotal - TouristBudget < Cent
    /\ (i_sel.tag = "Selection" /\ baseline.industry <= IndustryBudget)
            => /\ i_sel.subtotal <= Round2(IndustryBudget)
               /\ i_sel.subtotal - IndustryBudget < Cent

\* an upgrade was adopted under a baseline within the sub-budget, and the pool's
\* Selection was returned with more than the baseline
C1_Witness ==
    /\ t_sel.tag = "Selection"
    /\ baseline.tourist <= TouristBudget
    /\ baseline.tourist > 0
    /\ t_sel.subtotal > baseline.tourist

\* pname has a price point that survives the eligibility rules
Viable(pname, product) ==
    \E k \in 1..Len(product.price_options) :
        /\ Eligible(pname, OptName(product.price_options[k], pname), is_advertiser)
        /\ price_points(product.price_options[k]) # <<>>

Names(ps) == [k \in 1..Len(ps) |-> ps[k][1]]
ViableNames(prods) == Names(SelectSeq(prods, LAMBDA e : Viable(e[1], e[2])))

\* C2: after greedy_fill_to_cap on a pool, the Selection holds exactly one Pick for
\* every pool product with a price point that survives the eligibility rules, in
\* product order; a product with no viable price point gets no Pick and raises no
\* error; no product has more than one Pick.
C2_OnePickPerViableProduct ==
    /\ pc = "baseline" => Names(picks) = ViableNames(SubSeq(products, 1, idx - 1))
    /\ InPhaseB => Names(picks) = ViableNames(products)
    /\ t_sel.tag = "Selection" => Names(t_sel.picks) = ViableNames(t_set)
    /\ i_sel.tag = "Selection" => Names(i_sel.picks) = ViableNames(i_set)
    /\ pc = "raised" => Viable(products[idx][1], products[idx][2])

\* a Selection was returned for a pool holding both a product with viable price
\* points and a product with none
C2_Witness ==
    /\ t_sel.tag = "Selection"
    /\ \E k \in 1..Len(t_set) : Viable(t_set[k][1], t_set[k][2])
    /\ \E k \in 1..Len(t_set) : ~Viable(t_set[k][1], t_set[k][2])
    /\ Len(t_sel.picks) < Len(t_set)

\* C3: the Phase B upgrade loop terminates: every adopted upgrade strictly increases
\* the running subtotal, a pass that changed something is followed by another pass,
\* and the loop exits after the first full pass that changes nothing.
C3_UpgradeLoopTerminates ==
    /\ [](pc = "upgrade" => <>(pc = "return"))
    /\ [][(pc = "upgrade" /\ pc' = "upgrade" /\ (picks' # picks \/ (improved' /\ ~improved)))
              => subtotal' > subtotal]_vars
    /\ [][(pc = "upgrade" /\ pc' = "return") => (idx > Len(picks) /\ ~improved)]_vars
    /\ [][(pc = "upgrade" /\ idx > Len(picks) /\ ~improved) => pc' = "return"]_vars

\* the loop has left after passes that adopted upgrades
C3_Witness ==
    /\ pc = "return"
    /\ subtotal > baseline[pool]
    /\ Len(picks) > 1

\* the run has the inputs of the first run
SameInputs ==
    /\ run > 1
    /\ total_budget = first.total_budget
    /\ tourist_pct = first.tourist_pct
    /\ industry_pct = first.industry_pct
    /\ t_set = first.t_set
    /\ i_set = first.i_set

\* C4: two runs of run_fill_to_cap on identical inputs end alike and return identical
\* tourist and industry Selections and the same grand total; every allocator call
\* starts with no picks and a zero subtotal, whatever ran before.
C4_Idempotent ==
    /\ (pc = "baseline" /\ idx = 1) => (picks = <<>> /\ subtotal = 0)
    /\ (SameInputs /\ pc \in {"done", "raised"}) =>
          /\ pc = first.outcome
          /\ pc = "done" => /\ t_sel = first.t_sel
                            /\ i_sel = first.i_sel
                            /\ grand_total = first.grand_total

\* a second run on the first run's inputs has returned non-empty Selections
C4_Witness ==
    /\ SameInputs
    /\ pc = "done"
    /\ t_sel.picks # <<>>
    /\ i_sel.picks # <<>>
    /\ grand_total > 0

AllocatorRunning == pc \in {"baseline", "upgrade", "return", "raised"}

\* C5: run_fill_to_cap gives each pool the sub-budget total_budget * pct / 100 and
\* returns the two pool subtotals' sum rounded to 2 decimals as grand_total; for
\* 45000 split 60/40 the sub-budgets are 27000 and 18000, as compute_pools reports.
C5_SubBudgetsAndGrandTotal ==
    /\ AllocatorRunning =>
          budget * 100
              = total_budget * (IF pool = "tourist" THEN tourist_pct ELSE industry_pct)
    /\ pc = "done" =>
          /\ t_sel.tag = "Selection"
          /\ i_sel.tag = "Selection"
          /\ grand_total = Round2(t_sel.subtotal + i_sel.subtotal)
    /\ (total_budget = USD(45000) /\ tourist_pct = 60 /\ industry_pct = 40) =>
          /\ (AllocatorRunning /\ pool = "tourist") => budget = USD(27000)
          /\ (AllocatorRunning /\ pool = "industry") => budget = USD(18000)
          /\ compute_pools(total_budget, tourist_pct, industry_pct)
                = [tourist |-> USD(27000), industry |-> USD(18000)]

\* the 45000 60/40 run has returned its grand total
C5_Witness ==
    /\ pc = "done"
    /\ total_budget = USD(45000) /\ tourist_pct = 60 /\ industry_pct = 40
    /\ i_sel.subtotal > 0
    /\ grand_total > i_sel.subtotal

\* C6: with metadata, date and advertiser flag fixed, the tourist Selection depends
\* only on the tourist product set and sub-budget and the industry Selection only on
\* the industry set and sub-budget: a run that changes one pool's inputs returns the
\* other pool's Selection unchanged.
C6_PoolsIndependent ==
    (run > 1 /\ pc = "done" /\ first.outcome = "done") =>
        /\ (t_set = first.t_set
              /\ TouristBudget = SubBudget(first.total_budget, first.tourist_pct))
                  => t_sel = first.t_sel
        /\ (i_set = first.i_set
              /\ IndustryBudget = SubBudget(first.total_budget, first.industry_pct))
                  => i_sel = first.i_sel

\* a second run changed the tourist pool's inputs and result, left budget unspent
\* there, and returned the first run's industry Selection
C6_Witness ==
    /\ run > 1 /\ pc = "done" /\ first.outcome = "done"
    /\ t_set # first.t_set
    /\ t_sel # first.t_sel
    /\ t_sel.subtotal < TouristBudget
    /\ i_set = first.i_set /\ industry_pct = first.industry_pct
    /\ i_sel = first.i_sel
    /\ i_sel.picks # <<>>

(***************************************************************************)
(* partition_by_category, called on catalogs whose products carry every    *)
(* kind of category: absent entry, absent or empty category, recognised in *)
(* either case and with padding, naming both pools, unrecognised.          *)
(***************************************************************************)
PartitionCatalogs ==
    { << Entry(P_EMAIL), Entry(P_SUMMIT), Entry(P_GUIDE) >>,
      << Entry(P_GUIDE), Entry(P_EMAIL) >> }

PartitionCategories ==
    { <<>>, << <<>> >>, Category(<<"Tourist">>), Category(<<" ", "tourist", "-", "facing">>),
      Category(<<"Industry", " ">>), Category(<<"industry", " ", "and", " ", "Tourist">>),
      Category(<<"Other">>) }

PartitionNames == {EMAIL_BLAST, SUMMIT_BOOTH, CONCIERGE_GUIDE}

\* meta maps some of the names to an entry with a category
PartitionMetas ==
    UNION { [D -> {[category |-> c, seasonal_price_windows |-> <<>>] :
                        c \in PartitionCategories}] : D \in SUBSET PartitionNames }

InitPartition ==
    /\ AllocIdle
    /\ heap = EmptyHeap
    /\ \E c \in PartitionCatalogs, m \in PartitionMetas :
          call = [fn |-> "partition_by_category", catalog |-> c, meta |-> m,
                  returned |-> FALSE, result |-> [tourist |-> <<>>, industry |-> <<>>]]

\* the call runs and returns its pair of pools
Partition ==
    /\ call.fn = "partition_by_category"
    /\ ~call.returned
    /\ call' = [call EXCEPT !.returned = TRUE,
                            !.result = partition_by_category(call.catalog, call.meta)]
    /\ UNCHANGED <<allocVars, heap>>

NextPartition == Partition

SpecPartition == InitPartition /\ [][NextPartition]_vars

InPool(pl, name) == \E j \in 1..Len(pl) : pl[j][1] = name

\* C7: partition_by_category places each catalog product in the tourist pool if its
\* category normalizes to tourist, in the industry pool if it normalizes to
\* industry, and in neither pool when the category is missing or unrecognized; no
\* product is in both pools, and every pooled product is the catalog's record.
C7_PartitionDisjoint ==
    (call.fn = "partition_by_category" /\ call.returned) =>
        LET t == call.result.tourist
            i == call.result.industry
            c == call.catalog
        IN  /\ \A k \in 1..Len(c) :
                 LET cat == CategoryOf(call.meta, c[k][1])
                 IN  /\ InPool(t, c[k][1]) <=> cat = << <<"tourist">> >>
                     /\ InPool(i, c[k][1]) <=> cat = << <<"industry">> >>
                     /\ ~(InPool(t, c[k][1]) /\ InPool(i, c[k][1]))
                     /\ (c[k][1] \notin DOMAIN call.meta \/ cat = <<>>)
                            => (~InPool(t, c[k][1]) /\ ~InPool(i, c[k][1]))
            /\ \A j \in 1..Len(t) : \E k \in 1..Len(c) : t[j] = c[k]
            /\ \A j \in 1..Len(i) : \E k \in 1..Len(c) : i[j] = c[k]
            /\ \A j, l \in 1..Len(t) : t[j][1] = t[l][1] => j = l
            /\ \A j, l \in 1..Len(i) : i[j][1] = i[l][1] => j = l

\* a returned partition with a tourist product, an industry product and a product
\* dropped for an unrecognized category
C7_Witness ==
    /\ call.fn = "partition_by_category" /\ call.returned
    /\ call.result.tourist # <<>>
    /\ call.result.industry # <<>>
    /\ \E k \in 1..Len(call.catalog) :
          /\ call.catalog[k][1] \in DOMAIN call.meta
          /\ CategoryOf(call.meta, call.catalog[k][1]) = Category(<<"other">>)
          /\ ~InPool(call.result.tourist, call.catalog[k][1])
          /\ ~InPool(call.result.industry, call.catalog[k][1])

(***************************************************************************)
(* apply_summit_rules as it runs.  Records and option lists are objects of *)
(* the store `heap`: a record holds the id of its option list, a catalog   *)
(* dict holds <<name, record id>> pairs.  deepcopy allocates new objects;  *)
(* a list comprehension allocates a new list; an attribute assignment      *)
(* changes the record object it is made on.                                *)
(***************************************************************************)
BASIC_BOOTH == <<"Basic", " ", "Booth">>
SUMMIT_BOOTH_2026 == <<"Summit", " ", "Booth", " ", "2", "0", "2", "6">>
EXPO_STAND == <<"Expo", " ", "Stand">>

\* a Summit Booth whose options carry neither exact Basic Booth key
P_SUMMIT_PLAIN ==
    ProductRecord(SUMMIT_BOOTH,
        << Scalar(BASIC_BOOTH, USD(1700)),
           Scalar(<<"basic", " ", "booth", " ", "(", "non", "-", "advertiser", ")">>, USD(1900)),
           Option(<<>>, Num(USD(900)), Absent, Absent),
           Scalar(PREMIUM_BOOTH, USD(2600)) >>,
        <<>>)

\* a record filed under a Summit Booth key whose own name is another
P_EXPO == ProductRecord(EXPO_STAND, << Scalar(BASIC_BOOTH_ADVERTISER, USD(1500)) >>, <<>>)

SummitCatalogs ==
    { << Entry(P_EMAIL), Entry(P_SUMMIT) >>,
      << Entry(P_SUMMIT_PLAIN), Entry(P_GUIDE) >>,
      << <<SUMMIT_BOOTH_2026, P_EXPO>> >>,
      << Entry(P_GUIDE) >> }

SummitProfiles ==
    ProfileTexts \cup
    { <<>>,
      <<"CVB", " ", "from", " ", "out", " ", "of", " ", "state">>,
      <<"Illinois", " ", "CVB", " ", "and", " ", "DMO">>,
      <<"outside", " ", "Illinois">>,
      <<"out", "-", "of", "-", "state", " ", "visitors">> }

\* is_advertiser is True, is False, or is neither
Flags == {"True", "False", "None"}

\* the objects of a catalog given by value, and the dict that refers to them
HeapOf(c) ==
    [records |-> [k \in 1..Len(c) |->
                    [name |-> c[k][2].name, price_options |-> k,
                     duration_quarter_map |-> c[k][2].duration_quarter_map]],
     lists   |-> [k \in 1..Len(c) |-> c[k][2].price_options]]

CatalogRefs(c) == [k \in 1..Len(c) |-> <<c[k][1], k>>]

\* rec.price_options, read through the store h
OptionsOf(h, id) == h.lists[h.records[id].price_options]

InitSummit ==
    /\ AllocIdle
    /\ \E c \in SummitCatalogs, txt \in SummitProfiles, flag \in Flags :
          /\ heap = HeapOf(c)
          /\ call = [fn |-> "apply_summit_rules", catalog |-> CatalogRefs(c),
                     profile_text |-> txt, is_advertiser |-> flag,
                     i |-> 1, new |-> <<>>, out |-> 0, pc |-> "loop",
                     before |-> HeapOf(c)]

InSummitLoop ==
    /\ call.fn = "apply_summit_rules"
    /\ call.pc = "loop"
    /\ call.i <= Len(call.catalog)

\* the record the loop is at
CurrentRec == call.catalog[call.i][2]

\* lines 52-53: another product goes into the new dict as it is
PassThrough ==
    /\ InSummitLoop
    /\ ~IsSummitBooth(call.catalog[call.i][1])
    /\ call' = [call EXCEPT !.new = Append(@, call.catalog[call.i]), !.i = @ + 1]
    /\ UNCHANGED <<allocVars, heap>>

\* a variant of line 16 that binds out to rec itself
SummitCopyAliases ==
    /\ InSummitLoop
    /\ IsSummitBooth(call.catalog[call.i][1])
    /\ call' = [call EXCEPT !.out = CurrentRec, !.pc = "filter"]
    /\ UNCHANGED <<allocVars, heap>>

\* lines 50-51 and 16: filter_summit_booth is entered, out = deepcopy(rec)
SummitCopy ==
    /\ InSummitLoop
    /\ IsSummitBooth(call.catalog[call.i][1])
    /\ heap' = [records |-> Append(heap.records,
                                   [heap.records[CurrentRec] EXCEPT
                                        !.price_options = Len(heap.lists) + 1]),
                lists   |-> Append(heap.lists, OptionsOf(heap, CurrentRec))]
    /\ call' = [call EXCEPT !.out = Len(heap.records) + 1, !.pc = "filter"]
    /\ UNCHANGED allocVars

InFilter == call.fn = "apply_summit_rules" /\ call.pc = "filter"

\* return out, and line 51: new[name] = out
FilterReturns ==
    call' = [call EXCEPT !.new = Append(@, <<call.catalog[call.i][1], call.out>>),
                         !.i = @ + 1, !.out = 0, !.pc = "loop"]

\* out.price_options = items, items a new list
SetOptions(items) ==
    heap' = [records |-> [heap.records EXCEPT
                             ![call.out].price_options = Len(heap.lists) + 1],
             lists   |-> Append(heap.lists, items)]

\* lines 17-19: the record's own name is not a Summit Booth name
SummitNotBooth ==
    /\ InFilter
    /\ ~IsSummitBooth(heap.records[CurrentRec].name)
    /\ FilterReturns
    /\ UNCHANGED <<allocVars, heap>>

\* lines 27-29
SummitCvb ==
    /\ InFilter
    /\ IsSummitBooth(heap.records[CurrentRec].name)
    /\ CvbProfile(call.profile_text)
    /\ SetOptions(CvbOptions(OptionsOf(heap, CurrentRec)))
    /\ FilterReturns
    /\ UNCHANGED allocVars

\* lines 31-33
SummitDmo ==
    /\ InFilter
    /\ IsSummitBooth(heap.records[CurrentRec].name)
    /\ ~CvbProfile(call.profile_text)
    /\ DmoProfile(call.profile_text)
    /\ SetOptions(DmoOptions(OptionsOf(heap, CurrentRec)))
    /\ FilterReturns
    /\ UNCHANGED allocVars

\* neither profile rule applies
SmallBusiness ==
    /\ InFilter
    /\ IsSummitBooth(heap.records[CurrentRec].name)
    /\ ~CvbProfile(call.profile_text)
    /\ ~DmoProfile(call.profile_text)

\* lines 36-42 and 45: an option carries the exact key
SummitBasic ==
    /\ SmallBusiness
    /\ ExactOptions(OptionsOf(heap, CurrentRec), call.is_advertiser) # <<>>
    /\ SetOptions(ExactOptions(OptionsOf(heap, CurrentRec), call.is_advertiser))
    /\ FilterReturns
    /\ UNCHANGED allocVars

\* lines 36-45: no option carries the exact key
SummitFallback ==
    /\ SmallBusiness
    /\ ExactOptions(OptionsOf(heap, CurrentRec), call.is_advertiser) = <<>>
    /\ SetOptions(BasicOptions(OptionsOf(heap, CurrentRec)))
    /\ FilterReturns
    /\ UNCHANGED allocVars

\* line 54
ReturnCatalog ==
    /\ call.fn = "apply_summit_rules"
    /\ call.pc = "loop"
    /\ call.i > Len(call.catalog)
    /\ call' = [call EXCEPT !.pc = "returned"]
    /\ UNCHANGED <<allocVars, heap>>

NextSummit ==
    \/ PassThrough
    \/ SummitCopy
    \/ SummitNotBooth
    \/ SummitCvb
    \/ SummitDmo
    \/ SummitBasic
    \/ SummitFallback
    \/ ReturnCatalog

SpecSummit == InitSummit /\ [][NextSummit]_vars

\* the entries of call.new that filter_summit_booth filtered: position, the option
\* list the input record had at the call, and the option list of the record returned
Filtered(k) ==
    /\ IsSummitBooth(call.catalog[k][1])
    /\ IsSummitBooth(call.before.records[call.catalog[k][2]].name)
OrigOptions(k) == OptionsOf(call.before, call.catalog[k][2])
NewOptions(k) == OptionsOf(heap, call.new[k][2])

\* opts with the options whose name, lower-cased, contains key
NamedWith(opts, key) ==
    SelectSeq(opts, LAMBDA o : o.name # <<>> /\ Contains(Lower(o.name[1]), key))

\* opts with the options whose name is exactly key
NamedExactly(opts, key) == SelectSeq(opts, LAMBDA o : o.name = <<key>>)

TextHas(txt, key) == Contains(Lower(txt), key)

\* a is b with some items left out
RECURSIVE IsSubSeq(_, _)
IsSubSeq(a, b) ==
    IF a = <<>> THEN TRUE
    ELSE IF b = <<>> THEN FALSE
    ELSE IF Head(a) = Head(b) THEN IsSubSeq(Tail(a), Tail(b))
    ELSE IsSubSeq(a, Tail(b))

\* C8: for the Summit Booth product filter_summit_booth applies its rules in fixed
\* priority: a profile with both 'cvb' and 'illinois' keeps only the 'Illinois CVB'
\* options; else a profile with 'dmo', 'out-of-state', 'out of state' or 'outside
\* illinois' keeps only the 'DMO (out of Illinois)' options; else the Basic Booth
\* option keyed by the advertiser flag is kept, or, when no option has the exact
\* key, every option containing 'basic booth'.  The result is a subset of the options.
C8_SummitRulePriority ==
    call.fn = "apply_summit_rules" =>
        \A k \in 1..Len(call.new) : Filtered(k) =>
            LET txt  == call.profile_text
                orig == OrigOptions(k)
                got  == NewOptions(k)
                key  == IF call.is_advertiser = "False" THEN BASIC_BOOTH_NON_ADVERTISER
                        ELSE BASIC_BOOTH_ADVERTISER
            IN  /\ IsSubSeq(got, orig)
                /\ IF TextHas(txt, <<"cvb">>) /\ TextHas(txt, <<"illinois">>)
                   THEN got = NamedWith(orig, <<"illinois", " ", "cvb">>)
                   ELSE IF \/ TextHas(txt, <<"dmo">>)
                           \/ TextHas(txt, <<"out", "-", "of", "-", "state">>)
                           \/ TextHas(txt, <<"out", " ", "of", " ", "state">>)
                           \/ TextHas(txt, <<"outside", " ", "illinois">>)
                   THEN got = NamedWith(orig, <<"dmo", " ", "(", "out", " ", "of", " ",
                                                "illinois", ")">>)
                   ELSE IF NamedExactly(orig, key) # <<>>
                   THEN got = NamedExactly(orig, key)
                   ELSE got = NamedWith(orig, <<"basic", " ", "booth">>)

\* a small business that is no advertiser got the Basic Booth options of a Summit
\* Booth that has no option with the exact key
C8_Witness ==
    /\ call.fn = "apply_summit_rules"
    /\ call.pc = "returned"
    /\ call.is_advertiser = "False"
    /\ \E k \in 1..Len(call.new) :
          /\ Filtered(k)
          /\ NamedExactly(OrigOptions(k), BASIC_BOOTH_NON_ADVERTISER) = <<>>
          /\ Len(NewOptions(k)) = 2
          /\ Len(OrigOptions(k)) = 4

\* C9: apply_summit_rules never mutates the catalog it is given: every record and
\* option list that existed at the call is as it was, so the input Summit Booth
\* record keeps its full option list; the filtered record is a separate object; a
\* product that is no Summit Booth is returned as the very record of the catalog.
C9_CatalogNotMutated ==
    call.fn = "apply_summit_rules" =>
        /\ \A id \in 1..Len(call.before.records) :
              /\ heap.records[id] = call.before.records[id]
              /\ OptionsOf(heap, id) = OptionsOf(call.before, id)
        /\ \A id \in 1..Len(call.before.lists) : heap.lists[id] = call.before.lists[id]
        /\ \A k \in 1..Len(call.new) :
              /\ call.new[k][1] = call.catalog[k][1]
              /\ IF IsSummitBooth(call.catalog[k][1])
                 THEN /\ call.new[k][2] > Len(call.before.records)
                      /\ heap.records[call.new[k][2]].price_options > Len(call.before.lists)
                 ELSE /\ call.new[k] = call.catalog[k]
                      /\ OptionsOf(heap, call.new[k][2])
                            = OptionsOf(call.before, call.catalog[k][2])
        /\ call.pc = "returned" => Len(call.new) = Len(call.catalog)

\* the call returned a narrowed Summit Booth next to another product
C9_Witness ==
    /\ call.fn = "apply_summit_rules"
    /\ call.pc = "returned"
    /\ \E k \in 1..Len(call.new) :
          /\ Filtered(k)
          /\ Len(NewOptions(k)) < Len(OrigOptions(k))
          /\ Len(OptionsOf(heap, call.catalog[k][2])) = Len(OrigOptions(k))
    /\ \E k \in 1..Len(call.new) : ~IsSummitBooth(call.new[k][1])

(***************************************************************************)
(* get_effective_unit_price as it runs, on products with and without an    *)
(* advertiser override, seasonal tables that list the option, tables that  *)
(* do not, and dates inside and outside the windows.                       *)
(***************************************************************************)
\* (product_name, option_name)
PriceSubjects ==
    { <<EMAIL_BLAST, BLAST_EMAIL_CONCIERGE>>,
      <<<<" ">> \o EMAIL_BLAST, BLAST_EMAIL_CONCIERGE \o <<" ">> >>,
      <<EMAIL_BLAST, PLANNER_EBLAST>>,
      <<AMBASSADOR_PROGRAM, STANDARD_AMBASSADOR>>,
      <<AMBASSADOR_PROGRAM, AMBASSADOR_CONCIERGE_INTRO>>,
      <<AMBASSADOR_PROGRAM, PLANNER_EBLAST>>,
      <<SUMMIT_BOOTH, BASIC_BOOTH_ADVERTISER>>,
      <<SUMMIT_BOOTH, PREMIUM_BOOTH>> }

PriceBases == {USD(750), USD(3200)}

\* a spring window that prices the override options, and one that prices none
OverrideSeasons ==
    "4/15-6/14" :> ((BLAST_EMAIL_CONCIERGE :> USD(600)) @@ (STANDARD_AMBASSADOR :> USD(3100))
                    @@ (AMBASSADOR_CONCIERGE_INTRO :> USD(2900)))
EmptyWindowSeasons == "4/15-6/14" :> <<>>

PriceMetas ==
    { NoMeta,
      [category |-> <<>>, seasonal_price_windows |-> SummitSeasons],
      [category |-> <<>>, seasonal_price_windows |-> OverrideSeasons],
      [category |-> <<>>, seasonal_price_windows |-> EmptyWindowSeasons] }

PriceDates == Dates \cup {Date(2025, 12, 25)}

InitPrice ==
    /\ AllocIdle
    /\ heap = EmptyHeap
    /\ \E s \in PriceSubjects, b \in PriceBases, m \in PriceMetas, d \in PriceDates,
          adv \in BOOLEAN :
          call = [fn |-> "get_effective_unit_price", product_name |-> s[1],
                  option_name |-> s[2], base_price |-> b, meta |-> m, chosen_date |-> d,
                  is_advertiser |-> adv, eff |-> b, pc |-> "season", result |-> None]

InPrice(at) == call.fn = "get_effective_unit_price" /\ call.pc = at

\* the call of line 151
Seasonal == booth_season_for_date(call.meta, call.option_name, call.chosen_date)

\* lines 149-150 without a date
PriceNoDate ==
    /\ InPrice("season")
    /\ call.chosen_date.tag # "date"
    /\ call' = [call EXCEPT !.eff = call.base_price, !.pc = "override"]
    /\ UNCHANGED <<allocVars, heap>>

\* lines 149-153 with a date: the seasonal price, if there is one, replaces the base
PriceSeasonal ==
    /\ InPrice("season")
    /\ call.chosen_date.tag = "date"
    /\ Seasonal.tag # "raise"
    /\ call' = [call EXCEPT !.eff = IF Seasonal.tag = "num" THEN Seasonal.v
                                    ELSE call.base_price,
                            !.pc = "override"]
    /\ UNCHANGED <<allocVars, heap>>

\* line 151: booth_season_for_date raises, and the exception leaves the function
PriceSeasonalRaise ==
    /\ InPrice("season")
    /\ call.chosen_date.tag = "date"
    /\ Seasonal.tag = "raise"
    /\ call' = [call EXCEPT !.pc = "raised", !.result = Raised]
    /\ UNCHANGED <<allocVars, heap>>

\* lines 155-165
PriceReturn ==
    /\ InPrice("override")
    /\ LET adv == advertiser_overrides(call.product_name, call.option_name, call.eff,
                                       <<>>, call.is_advertiser)
       IN  call' = [call EXCEPT !.result = IF adv.tag = "override" THEN Num(adv.price)
                                           ELSE Num(call.eff),
                                !.pc = "returned"]
    /\ UNCHANGED <<allocVars, heap>>

NextPrice ==
    \/ PriceNoDate
    \/ PriceSeasonal
    \/ PriceSeasonalRaise
    \/ PriceReturn

SpecPrice == InitPrice /\ [][NextPrice]_vars

PriceEnded == call.fn = "get_effective_unit_price" /\ call.pc \in {"returned", "raised"}

\* the allocator's candidates are priced with the result of the same call
PriceAgrees ==
    PriceEnded =>
        call.result = get_effective_unit_price(call.product_name, call.option_name,
                          call.base_price, call.meta, call.chosen_date, call.is_advertiser)

\* what the override, the seasonal table and the base price make the result
ExpectedPrice ==
    LET adv == advertiser_overrides(call.product_name, call.option_name, call.base_price,
                                    <<>>, call.is_advertiser)
    IN  IF adv.tag = "override" THEN Num(adv.price)
        ELSE IF call.chosen_date.tag = "date" /\ Seasonal.tag = "num" THEN Num(Seasonal.v)
        ELSE Num(call.base_price)

\* C10: get_effective_unit_price returns the advertiser override price whenever the
\* override fires for (product, option), whatever the billing date and the seasonal
\* table; otherwise the seasonal price when a date is given and the seasonal
\* resolver returns one; otherwise the base price; the two are never added.
C10_OverrideWins == PriceEnded => call.result = ExpectedPrice

\* every call that returns returns that price: the claim fails only where the
\* seasonal lookup raises
C10_HoldsWhereReturned == InPrice("returned") => call.result = ExpectedPrice

\* an advertiser's Email Blast concierge call ended in spring under a table that
\* has the window
C10_Witness ==
    /\ PriceEnded
    /\ call.is_advertiser
    /\ Strip(call.product_name) = EMAIL_BLAST
    /\ Contains(call.option_name, BLAST_EMAIL_CONCIERGE)
    /\ call.chosen_date = Date(2025, 5, 1)
    /\ "4/15-6/14" \in DOMAIN call.meta.seasonal_price_windows

(***************************************************************************)
(* pricing.py: calls of advertiser_overrides                               *)
(***************************************************************************)
\* (product name, option name) pairs: the override table's entries, padded and
\* extended option names, an option that holds a table entry's name but does not
\* start with it, and products outside the table
OverrideSubjects ==
    PriceSubjects \cup
    { <<EMAIL_BLAST, BLAST_EMAIL_CONCIERGE \o <<" ", "Plus">> >>,
      <<AMBASSADOR_PROGRAM, STANDARD_AMBASSADOR \o <<" ", "Plus">> >>,
      <<AMBASSADOR_PROGRAM, <<"Plus", " ">> \o STANDARD_AMBASSADOR>>,
      <<AMBASSADOR_PROGRAM, <<"Plus", " ">> \o AMBASSADOR_CONCIERGE_INTRO>>,
      <<HOTEL_MEETUP, HOTEL_MEETUP_2026>>,
      <<CHICAGO_DOES_REELS, REELS_STANDARD>>,
      <<CHICAGO_DOES_INTERACTIVE_MAP, ANNUAL_LISTING>>,
      <<CONCIERGE_GUIDE, BLAST_EMAIL_CONCIERGE>> }

OverrideTiers == {<<>>, EARLY_BIRD_TEXT}

InitOverride ==
    /\ AllocIdle
    /\ heap = EmptyHeap
    /\ \E s \in OverrideSubjects, b \in PriceBases, t \in OverrideTiers, adv \in BOOLEAN :
          call = [fn |-> "advertiser_overrides", product_name |-> s[1],
                  option_name |-> s[2], base_price |-> b, tier |-> t,
                  is_advertiser |-> adv, pc |-> "called", result |-> NoOverride]

InOverride(at) == call.fn = "advertiser_overrides" /\ call.pc = at

OverrideReturn ==
    /\ InOverride("called")
    /\ call' = [call EXCEPT
                  !.result = advertiser_overrides(call.product_name, call.option_name,
                                 call.base_price, call.tier, call.is_advertiser),
                  !.pc = "returned"]
    /\ UNCHANGED <<allocVars, heap>>

NextOverride == OverrideReturn

SpecOverride == InitOverride /\ [][NextOverride]_vars

\* the (product, option) of the call, as the table names them
IsEmailBlastConcierge ==
    Strip(call.product_name) = EMAIL_BLAST
        /\ Contains(Strip(call.option_name), BLAST_EMAIL_CONCIERGE)
IsAmbassadorStandard ==
    Strip(call.product_name) = AMBASSADOR_PROGRAM
        /\ StartsWith(Strip(call.option_name), STANDARD_AMBASSADOR)
IsAmbassadorIntro ==
    Strip(call.product_name) = AMBASSADOR_PROGRAM
        /\ StartsWith(Strip(call.option_name), AMBASSADOR_CONCIERGE_INTRO)

DiscountSubjects ==
    OverrideSubjects \cup
    { <<HOTEL_MEETUP, HOTEL_MEETUP_2026 \o <<" ">> >>,
      <<HOTEL_MEETUP, RETAIL_RATE>> }

DiscountTiers == {<<>>, EARLY_BIRD_TEXT, RETAIL_RATE}

\* a whole-dollar base, the Hotel Meetup retail price, and 10.01
DiscountBases == {USD(1000), USD(2595), USD(10) + Cent}

BillingDates ==
    {NoDate, Date(2025, 7, 1), Date(2025, 7, 31), Date(2025, 8, 1), Date(2025, 9, 1),
     Date(2026, 1, 15)}

InitDiscount ==
    /\ AllocIdle
    /\ heap = EmptyHeap
    /\ \E s \in DiscountSubjects, b \in DiscountBases, t \in DiscountTiers,
          other \in BOOLEAN, prepay \in BOOLEAN, adv \in BOOLEAN, d \in BillingDates :
          call = [fn |-> "apply_discounts", product_name |-> s[1], option_name |-> s[2],
                  base_price |-> b, tier |-> t, has_other_products |-> other,
                  prepay_full_year |-> prepay, is_advertiser |-> adv,
                  billing_date |-> d, pc |-> "called",
                  result |-> Discounted(b, <<>>)]

InDiscount(at) == call.fn = "apply_discounts" /\ call.pc = at

\* name and opt of lines 234-235
DiscountName == Strip(call.product_name)
DiscountOpt == Strip(call.option_name)

\* the override looked up as for a client that is no advertiser
DiscountOverrideUnflagged ==
    advertiser_overrides(DiscountName, DiscountOpt, call.base_price, call.tier, FALSE)

\* the call of lines 266-272
DiscountOverride ==
    advertiser_overrides(DiscountName, DiscountOpt, call.base_price, call.tier,
                         call.is_advertiser)

\* lines 241-263: the Hotel Meetup 2026 branch returns
ReturnEarlyBird ==
    /\ InDiscount("called")
    /\ IsHotelMeetup2026(DiscountName, DiscountOpt, call.billing_date)
    /\ call' = [call EXCEPT
                  !.result = early_bird(call.tier, call.base_price, call.billing_date),
                  !.pc = "returned"]
    /\ UNCHANGED <<allocVars, heap>>

\* lines 265-274: the advertiser override returns
ReturnOverride ==
    /\ InDiscount("called")
    /\ ~IsHotelMeetup2026(DiscountName, DiscountOpt, call.billing_date)
    /\ DiscountOverride.tag = "override"
    /\ call' = [call EXCEPT
                  !.result = Discounted(DiscountOverride.price, <<DiscountOverride.label>>),
                  !.pc = "returned"]
    /\ UNCHANGED <<allocVars, heap>>

\* lines 276-303: a rule of the closed table, or the default, returns
ReturnRule ==
    /\ InDiscount("called")
    /\ ~IsHotelMeetup2026(DiscountName, DiscountOpt, call.billing_date)
    /\ DiscountOverride.tag # "override"
    /\ call' = [call EXCEPT
                  !.result = closed_rules(DiscountName, DiscountOpt, call.base_price,
                                 call.has_other_products, call.prepay_full_year),
                  !.pc = "returned"]
    /\ UNCHANGED <<allocVars, heap>>

NextDiscount ==
    \/ ReturnEarlyBird
    \/ ReturnOverride
    \/ ReturnRule

SpecDiscount == InitDiscount /\ [][NextDiscount]_vars

\* the three branches return what the function returns
DiscountAgrees ==
    InDiscount("returned") =>
        call.result = apply_discounts(call.product_name, call.option_name,
                          call.base_price, call.tier, call.has_other_products,
                          call.prepay_full_year, call.is_advertiser, call.billing_date)

\* C12: in apply_discounts, whenever the advertiser override applies to the
\* (product, option) of the call, the result is exactly the override price and the
\* override label, for every value of has_other_products and prepay_full_year: no
\* bundle, volume or prepay rule is applied instead of or on top of an override.
C12_OverrideShortCircuits ==
    (InDiscount("returned") /\ call.is_advertiser) =>
        /\ IsEmailBlastConcierge =>
              call.result = Discounted(USD(450), <<"Existing advertiser contract rate">>)
        /\ IsAmbassadorStandard =>
              call.result = Discounted(USD(2950),
                                <<"Existing advertiser - with any campaign rate">>)
        /\ (IsAmbassadorIntro /\ ~IsAmbassadorStandard) =>
              call.result = Discounted(USD(2750),
                                <<"Existing advertiser - with any campaign rate">>)

\* an advertiser's Email Blast concierge call with other products and a full-year
\* prepay has returned
C12_Witness ==
    /\ InDiscount("returned")
    /\ call.is_advertiser
    /\ IsEmailBlastConcierge
    /\ call.has_other_products
    /\ call.prepay_full_year
    /\ call.result.price = USD(450)

\* C13: apply_discounts for product "Hotel Meetup", option "Hotel Meetup 2026", tier
\* "Early Bird Rate - Ends August 1": for every billing date strictly before August 1
\* of its year it returns 2395.0 with the early-bird label; for every billing date
\* on or after August 1 it returns the retail price 2595.0 with no label.
C13_EarlyBirdDeadline ==
    ( /\ InDiscount("returned")
      /\ DiscountName = HOTEL_MEETUP
      /\ DiscountOpt = HOTEL_MEETUP_2026
      /\ call.tier = EARLY_BIRD_TEXT
      /\ call.billing_date.tag = "date" ) =>
        IF call.billing_date.month < 8
        THEN call.result = Discounted(USD(2395), <<"Early Bird Rate - Ends August 1">>)
        ELSE call.result = Discounted(USD(2595), <<>>)

\* the early-bird tier was requested on August 1 and the retail price was returned
C13_Witness ==
    /\ InDiscount("returned")
    /\ DiscountName = HOTEL_MEETUP
    /\ DiscountOpt = HOTEL_MEETUP_2026
    /\ call.tier = EARLY_BIRD_TEXT
    /\ call.billing_date = Date(2025, 8, 1)
    /\ call.result = Discounted(USD(2595), <<>>)

\* the products the closed table, the override table and the early-bird rule name
RuledProducts ==
    {EMAIL_BLAST, CHICAGO_DOES_REELS, AMBASSADOR_PROGRAM, CHICAGO_DOES_INTERACTIVE_MAP,
     HOTEL_MEETUP}

\* the Interactive Map without prepay, and a product no rule names, keep the base
\* price and get no label
UnchangedWithoutRule ==
    /\ (DiscountName = CHICAGO_DOES_INTERACTIVE_MAP /\ ~call.prepay_full_year) =>
          call.result = Discounted(call.base_price, <<>>)
    /\ DiscountName \notin RuledProducts =>
          call.result = Discounted(call.base_price, <<>>)

\* C14 as stated: apply_discounts for "Chicago Does Interactive Map" returns 90% of
\* the base price with the label "Prepay entire year - 10% off" when prepay_full_year
\* is true, and the unchanged base price with no label when it is false; a product
\* that matches no rule of the closed table gets its base price unchanged and no label.
C14_PrepayTenPercent ==
    InDiscount("returned") =>
        /\ (DiscountName = CHICAGO_DOES_INTERACTIVE_MAP /\ call.prepay_full_year) =>
              /\ call.result.price * 10 = call.base_price * 9
              /\ call.result.label = <<"Prepay entire year -- 10% off">>
        /\ UnchangedWithoutRule

\* C14, amended: with prepay_full_year the Interactive Map gets 90% of the base
\* price rounded to 2 decimals (a whole number of cents within half a cent of 90%),
\* with the prepay label; the rest as stated.
C14_PrepayTenPercentRounded ==
    InDiscount("returned") =>
        /\ (DiscountName = CHICAGO_DOES_INTERACTIVE_MAP /\ call.prepay_full_year) =>
              /\ call.result.price % Cent = 0
              /\ call.result.price * 10 - call.base_price * 9 \in (-5 * Cent)..(5 * Cent)
              /\ call.result.label = <<"Prepay entire year -- 10% off">>
        /\ UnchangedWithoutRule

\* the Interactive Map was prepaid at a base price of 10.01 and 9.01 was returned
C14_Witness ==
    /\ InDiscount("returned")
    /\ DiscountName = CHICAGO_DOES_INTERACTIVE_MAP
    /\ call.prepay_full_year
    /\ call.base_price = USD(10) + Cent
    /\ call.result.price = USD(9) + Cent

(***************************************************************************)
(* pricing.py: the seasonal miss under get_effective_unit_price            *)
(***************************************************************************)
PriceTable == call.meta.seasonal_price_windows

\* the windows of the table that contain the billing date
MatchedWindows ==
    {i \in 1..Len(EXACT_WINDOWS \o NAMED_WINDOWS) :
        LET w == (EXACT_WINDOWS \o NAMED_WINDOWS)[i]
        IN  /\ w.label \in DOMAIN PriceTable
            /\ w.start <= mmdd_of(call.chosen_date)
            /\ mmdd_of(call.chosen_date) <= w.end}

\* the matched window lists no price for the option
OptionUnlisted ==
    \E i \in MatchedWindows :
        call.option_name \notin DOMAIN PriceTable[(EXACT_WINDOWS \o NAMED_WINDOWS)[i].label]

SeasonalMiss ==
    /\ call.fn = "get_effective_unit_price"
    /\ call.pc # "season"
    /\ call.chosen_date.tag = "date"
    /\ (DOMAIN PriceTable = {} \/ MatchedWindows = {} \/ OptionUnlisted)

\* C16: booth_season_for_date returns no override without raising when the product
\* has no seasonal table, when no window of the table contains the date, and when the
\* matched window lists no price for the requested option; get_effective_unit_price
\* then falls back to the base price.
C16_SeasonalMissFallsBack ==
    SeasonalMiss => call.pc # "raised" /\ call.eff = call.base_price

\* the first two kinds of miss do fall back to the base price
C16_HoldsWithoutMatch ==
    (SeasonalMiss /\ ~OptionUnlisted) => call.pc # "raised" /\ call.eff = call.base_price

\* a call whose date lies in a window of the table that does not list the option
C16_Witness ==
    /\ SeasonalMiss
    /\ OptionUnlisted
    /\ call.chosen_date = Date(2025, 5, 1)

(***************************************************************************)
(* pricing.py: calls of booth_season_for_date.  EXACT_WINDOWS and          *)
(* NAMED_WINDOWS are module-level dicts read at the time of the call; a    *)
(* call runs under the module's tables or under tables a fixture has put   *)
(* in their place.                                                         *)
(***************************************************************************)
\* NAMED_WINDOWS with "After Valentine's Day" drawn out to April 30, over the
\* first two weeks of the exact window "4/15-6/14"
OVERLAPPING_NAMED_WINDOWS ==
    << Window("Before Valentine's Day", 101, 213),
       Window("After Valentine's Day", 214, 430),
       Window("Before Halloween", 1001, 1031),
       Window("Before Christmas", 1101, 1224) >>

WindowTables ==
    { <<EXACT_WINDOWS, NAMED_WINDOWS>>, <<EXACT_WINDOWS, OVERLAPPING_NAMED_WINDOWS>> }

\* tables with the spring exact window, the named window, both, and a spring
\* window that lists one option only
SeasonTables ==
    { <<>>,
      ("4/15-6/14" :> ((BASIC_BOOTH :> USD(1300)) @@ (PREMIUM_BOOTH :> USD(1900))))
        @@ ("After Valentine's Day" :> ((BASIC_BOOTH :> USD(1500)) @@ (PREMIUM_BOOTH :> USD(2100)))),
      ("4/15-6/14" :> (BASIC_BOOTH :> USD(1300)))
        @@ ("After Valentine's Day" :> ((BASIC_BOOTH :> USD(1500)) @@ (PREMIUM_BOOTH :> USD(2100)))),
      "After Valentine's Day" :> ((BASIC_BOOTH :> USD(1500)) @@ (PREMIUM_BOOTH :> USD(2100))),
      "4/15-6/14" :> ((BASIC_BOOTH :> USD(1300)) @@ (PREMIUM_BOOTH :> USD(1900))) }

SeasonDates ==
    {Date(2025, 3, 1), Date(2025, 4, 20), Date(2025, 5, 1), Date(2025, 12, 25)}

SeasonOptions == {BASIC_BOOTH, PREMIUM_BOOTH, ILLINOIS_CVB_RATE}

InitSeason ==
    /\ AllocIdle
    /\ heap = EmptyHeap
    /\ \E w \in WindowTables, t \in SeasonTables, o \in SeasonOptions, d \in SeasonDates :
          call = [fn |-> "booth_season_for_date", exact_windows |-> w[1],
                  named_windows |-> w[2], meta |-> Meta(<<>>, t), option_name |-> o,
                  chosen_date |-> d, pc |-> "called", result |-> None]

InSeason(at) == call.fn = "booth_season_for_date" /\ call.pc = at

seasonal_map == call.meta.seasonal_price_windows

\* the named family searched before the exact family
SearchOrderNamedFirst == <<call.named_windows, call.exact_windows>>

\* the two loops, in the order of lines 42 and 48
SearchOrder == <<call.exact_windows, call.named_windows>>

\* the window of a family the loop stops at; 0 if it runs through
SeasonHit(windows) == FirstWindow(windows, seasonal_map, mmdd_of(call.chosen_date))

\* return float(seasonal_map[label].get(option_name, None)) for the hit of a family
ReturnWindowPrice(windows) ==
    LET price == WindowPrice(seasonal_map, windows[SeasonHit(windows)].label,
                             call.option_name)
    IN  call' = [call EXCEPT !.result = price,
                             !.pc = IF price.tag = "raise" THEN "raised" ELSE "returned"]

\* lines 36-37
ReturnNoTable ==
    /\ InSeason("called")
    /\ DOMAIN seasonal_map = {}
    /\ call' = [call EXCEPT !.result = None, !.pc = "returned"]
    /\ UNCHANGED <<allocVars, heap>>

\* lines 42-45
ReturnExact ==
    /\ InSeason("called")
    /\ DOMAIN seasonal_map # {}
    /\ SeasonHit(SearchOrder[1]) # 0
    /\ ReturnWindowPrice(SearchOrder[1])
    /\ UNCHANGED <<allocVars, heap>>

\* lines 48-51
ReturnNamed ==
    /\ InSeason("called")
    /\ DOMAIN seasonal_map # {}
    /\ SeasonHit(SearchOrder[1]) = 0
    /\ SeasonHit(SearchOrder[2]) # 0
    /\ ReturnWindowPrice(SearchOrder[2])
    /\ UNCHANGED <<allocVars, heap>>

\* line 53
ReturnNoWindow ==
    /\ InSeason("called")
    /\ DOMAIN seasonal_map # {}
    /\ SeasonHit(SearchOrder[1]) = 0
    /\ SeasonHit(SearchOrder[2]) = 0
    /\ call' = [call EXCEPT !.result = None, !.pc = "returned"]
    /\ UNCHANGED <<allocVars, heap>>

NextSeason ==
    \/ ReturnNoTable
    \/ ReturnExact
    \/ ReturnNamed
    \/ ReturnNoWindow

SpecSeason == InitSeason /\ [][NextSeason]_vars

SeasonEnded == call.fn = "booth_season_for_date" /\ call.pc \in {"returned", "raised"}

\* under the module's own tables the steps end as booth_season_for_date does
SeasonAgrees ==
    (SeasonEnded /\ call.exact_windows = EXACT_WINDOWS /\ call.named_windows = NAMED_WINDOWS)
        => call.result = booth_season_for_date(call.meta, call.option_name, call.chosen_date)

\* the windows of a family that are in the table and contain the date
WindowsAround(windows) ==
    {i \in 1..Len(windows) :
        /\ windows[i].label \in DOMAIN seasonal_map
        /\ windows[i].start <= mmdd_of(call.chosen_date)
        /\ mmdd_of(call.chosen_date) <= windows[i].end}

InBothFamilies ==
    WindowsAround(call.exact_windows) # {} /\ WindowsAround(call.named_windows) # {}

\* C15: booth_season_for_date checks the exact window family before the named
\* family: for a date inside both an exact window and a named window present in the
\* product's seasonal table, the price returned is the exact window's price for the
\* option.
C15_ExactBeforeNamed ==
    (SeasonEnded /\ InBothFamilies) =>
        \A i \in WindowsAround(call.exact_windows) :
            LET prices == seasonal_map[call.exact_windows[i].label]
            IN  /\ call.result.tag = "num" => /\ call.option_name \in DOMAIN prices
                                              /\ call.result.v = prices[call.option_name]
                /\ call.option_name \in DOMAIN prices =>
                      call.result = Num(prices[call.option_name])

\* April 20 lies in the exact spring window and in the drawn-out named window, both
\* price the option differently, and the exact window's 1300 was returned
C15_Witness ==
    /\ SeasonEnded
    /\ InBothFamilies
    /\ call.option_name = BASIC_BOOTH
    /\ seasonal_map["After Valentine's Day"][BASIC_BOOTH] = USD(1500)
    /\ call.result = Num(USD(1300))

(***************************************************************************)
(* legacy/Andy: the soft cap on a proposal.  A Selection is its line_total *)
(* (simple_schemas.py line 32); a Proposal holds the selections and the    *)
(* subtotal its validator computes from them (lines 50-53).                *)
(***************************************************************************)
RECURSIVE SumSeq(_)
SumSeq(s) == IF s = <<>> THEN 0 ELSE s[1] + SumSeq(Tail(s))

\* Proposal.compute_subtotal
compute_subtotal(selections) == Round2(SumSeq(selections))

RECURSIVE InsertDescending(_, _)
InsertDescending(sorted, x) ==
    IF sorted = <<>> THEN <<x>>
    ELSE IF sorted[1] >= x THEN <<sorted[1]>> \o InsertDescending(Tail(sorted), x)
    ELSE <<x>> \o sorted

\* selections.sort(key=line_total, reverse=True)
RECURSIVE SortDescending(_)
SortDescending(s) ==
    IF s = <<>> THEN <<>>
    ELSE InsertDescending(SortDescending(SubSeq(s, 1, Len(s) - 1)), s[Len(s)])

\* cap = round(budget * (1 + soft_cap_pct/100), 2)
SoftCap(amount, pct) == Round2Ratio(amount * (100 + pct), 100)

MaxSelections == 3

LineTotals == {USD(300), USD(500), USD(1200), USD(100) + 2}

Proposals ==
    UNION {[1..n -> LineTotals] : n \in 0..MaxSelections}

CapBudgets == {USD(1000), USD(500)}

SoftCapPcts == {0, 10}

InitCap ==
    /\ AllocIdle
    /\ heap = EmptyHeap
    /\ \E p \in Proposals, b \in CapBudgets, pct \in SoftCapPcts :
          call = [fn |-> "_enforce_soft_cap", selections |-> p,
                  subtotal |-> compute_subtotal(p), proposed |-> compute_subtotal(p),
                  budget |-> b, soft_cap_pct |-> pct, cap |-> SoftCap(b, pct),
                  removed |-> <<>>, pc |-> "check"]

InCap(at) == call.fn = "_enforce_soft_cap" /\ call.pc = at

\* the loop condition of line 68
OverCap == Len(call.selections) > 1 /\ SumSeq(call.selections) > call.cap

\* line 65 false: the proposal is returned as it came
CapWithin ==
    /\ InCap("check")
    /\ ~(call.subtotal > call.cap)
    /\ call' = [call EXCEPT !.pc = "returned"]
    /\ UNCHANGED <<allocVars, heap>>

\* lines 65-67
CapSort ==
    /\ InCap("check")
    /\ call.subtotal > call.cap
    /\ call' = [call EXCEPT !.selections = SortDescending(call.selections),
                            !.pc = "trim"]
    /\ UNCHANGED <<allocVars, heap>>

\* lines 68-69: the largest selection left is removed
CapPop ==
    /\ InCap("trim")
    /\ OverCap
    /\ call' = [call EXCEPT !.selections = Tail(call.selections),
                            !.removed = Append(call.removed, call.selections[1])]
    /\ UNCHANGED <<allocVars, heap>>

\* lines 70-74: the proposal is built again, which computes its subtotal
CapRebuild ==
    /\ InCap("trim")
    /\ ~OverCap
    /\ call' = [call EXCEPT !.subtotal = compute_subtotal(call.selections),
                            !.pc = "returned"]
    /\ UNCHANGED <<allocVars, heap>>

NextCap ==
    \/ CapWithin
    \/ CapSort
    \/ CapPop
    \/ CapRebuild

SpecCap == InitCap /\ [][NextCap]_vars

\* C17: after soft-cap enforcement on a proposal, with cap = budget * (1 +
\* soft_cap_pct), the proposal's final subtotal is at most the cap, for every list
\* of selections whose subtotal was above the cap.
C17_SoftCapEnforced ==
    (InCap("returned") /\ call.proposed > call.cap) => call.subtotal <= call.cap

\* the final subtotal is within the cap whenever more than one selection is left
C17_HoldsWithSeveralLeft ==
    (InCap("returned") /\ call.proposed > call.cap /\ Len(call.selections) > 1)
        => call.subtotal <= call.cap

\* a proposal above the cap was trimmed down to one selection, itself above the cap
C17_Witness ==
    /\ InCap("returned")
    /\ call.proposed > call.cap
    /\ call.removed # <<>>
    /\ Len(call.selections) = 1
    /\ call.subtotal > call.cap

(***************************************************************************)
(* Properties of the picks of greedy_fill_to_cap                           *)
(***************************************************************************)
\* the effective line price of a picks entry <<pname, <<opt_name, lbl, eff_base>>>>
LineOf(prods, entry) ==
    effective_line_price(ProductOf(prods, entry[1]), entry[2][2], entry[2][3])

\* the candidates of the product of a picks entry
CandidatesOf(prods, entry) ==
    Candidates(entry[1], ProductOf(prods, entry[1]), meta, chosen_date, is_advertiser)

\* a Phase B visit of the idx-th picked product
Visiting == pc = "upgrade" /\ idx <= Len(picks)

\* the visit adopts the candidate c in place of the current pick
Adopts(c) ==
    /\ picks' = [picks EXCEPT ![idx] = <<picks[idx][1], <<c[1], c[2], c[3]>> >>]
    /\ subtotal' = subtotal - LineOf(products, picks[idx]) + c[4]

\* C18: in each Phase B visit of a product the allocator adopts the cheapest
\* eligible candidate whose line price is strictly greater than the current pick's,
\* provided subtotal - current line + candidate line <= sub-budget; it never adopts a
\* candidate whose line price is <= the current pick's, and it adopts at most one
\* candidate per product per pass.
C18_CheapestAffordableUpgrade ==
    [][Visiting =>
         LET cur   == LineOf(products, picks[idx])
             cands == CandidatesOf(products, picks[idx])
             above == {k \in 1..Len(cands) : cands[k][4] > cur}
             fits  == {k \in above : subtotal - cur + cands[k][4] <= budget}
         IN  /\ idx' = idx + 1
             /\ fits = {} => picks' = picks /\ subtotal' = subtotal
             /\ fits # {} =>
                   \E k \in fits :
                       /\ \A j \in above : cands[k][4] <= cands[j][4]
                       /\ Adopts(cands[k])
             /\ picks' # picks => LineOf(products, picks'[idx]) > cur]_vars

\* a visit has moved Email Blast from its cheapest line to the next one up, with a
\* dearer candidate left
C18_Witness ==
    /\ pc = "upgrade"
    /\ improved
    /\ \E k \in 1..Len(picks) :
          /\ picks[k][1] = EMAIL_BLAST
          /\ LET cands == CandidatesOf(products, picks[k])
                 line  == LineOf(products, picks[k])
             IN  /\ \E j \in 1..Len(cands) : cands[j][4] < line
                 /\ \E j \in 1..Len(cands) : cands[j][4] > line

\* the first candidate of minimum line price, 0 if there is no candidate
FirstCheapest(cands) ==
    IF cands = <<>> THEN 0
    ELSE CHOOSE k \in 1..Len(cands) :
            /\ \A j \in 1..Len(cands) : cands[k][4] <= cands[j][4]
            /\ \A j \in 1..(k - 1) : cands[j][4] > cands[k][4]

\* C19: Phase A picks, independently for each product, the eligible (option, tier)
\* candidate of minimum effective line price among all candidates of the product;
\* when several candidates have that minimum line price the pick is the one
\* enumerated first; the budget plays no part in the choice.
C19_BaselineIsFirstCheapest ==
    pc = "baseline" =>
        \A j \in 1..(idx - 1) :
            LET pname == products[j][1]
                cands == Candidates(pname, products[j][2], meta, chosen_date, is_advertiser)
                k     == FirstCheapest(cands)
            IN  IF k = 0 THEN PickIndex(picks, pname) = 0
                ELSE /\ PickIndex(picks, pname) # 0
                     /\ picks[PickIndex(picks, pname)][2] =
                            <<cands[k][1], cands[k][2], cands[k][3]>>

\* Phase A has picked Chicago Does Reels, whose first two options tie on the cheapest
\* line, and the baseline is already above the sub-budget
C19_Witness ==
    /\ pc = "baseline"
    /\ subtotal > budget
    /\ PickIndex(picks, CHICAGO_DOES_REELS) # 0
    /\ picks[PickIndex(picks, CHICAGO_DOES_REELS)][2][1] = REELS_STANDARD
    /\ LET cands == CandidatesOf(products, picks[PickIndex(picks, CHICAGO_DOES_REELS)])
       IN  \E i, j \in 1..Len(cands) :
              /\ i < j
              /\ cands[i][4] = cands[j][4]
              /\ \A n \in 1..Len(cands) : cands[i][4] <= cands[n][4]

\* the sum of the effective line prices of the first n picks
RECURSIVE PicksTotal(_, _, _)
PicksTotal(prods, ps, n) ==
    IF n = 0 THEN 0 ELSE PicksTotal(prods, ps, n - 1) + LineOf(prods, ps[n])

\* C20: at every point of greedy_fill_to_cap after Phase A (between any two upgrade
\* steps and at return) the running subtotal equals the sum, over the current Picks,
\* of the effective line price (picked unit price times the tier's duration
\* multiplier); the returned subtotal is that sum rounded to 2 decimals.
C20_SubtotalIsSumOfLines ==
    /\ InPhaseB => subtotal = PicksTotal(products, picks, Len(picks))
    /\ t_sel.tag = "Selection" =>
          t_sel.subtotal = Round2(PicksTotal(t_set, t_sel.picks, Len(t_sel.picks)))
    /\ i_sel.tag = "Selection" =>
          i_sel.subtotal = Round2(PicksTotal(i_set, i_sel.picks, Len(i_sel.picks)))

\* a Selection was returned after an upgrade to a tier with a duration multiplier
\* above 1
C20_Witness ==
    /\ t_sel.tag = "Selection"
    /\ t_sel.subtotal > baseline.tourist
    /\ \E k \in 1..Len(t_sel.picks) :
          LineOf(t_set, t_sel.picks[k]) > t_sel.picks[k][2][3]

(***************************************************************************)
(* Properties of Phase B                                                   *)
(***************************************************************************)
\* C21: during Phase B the running subtotal never decreases: the subtotal after any
\* upgrade step is strictly greater than before it, and a visit that adopts nothing
\* leaves the subtotal unchanged.
C21_SubtotalNeverDecreases ==
    [][pc = "upgrade" =>
         /\ subtotal' >= subtotal
         /\ picks' # picks => subtotal' > subtotal
         /\ picks' = picks => subtotal' = subtotal]_vars

\* two upgrades have been adopted in Phase B
C21_Witness ==
    /\ pc = "upgrade"
    /\ improved
    /\ \E i, j \in 1..Len(picks) :
          /\ i # j
          /\ \E n \in 1..Len(CandidatesOf(products, picks[i])) :
                CandidatesOf(products, picks[i])[n][4] < LineOf(products, picks[i])
          /\ \E n \in 1..Len(CandidatesOf(products, picks[j])) :
                CandidatesOf(products, picks[j])[n][4] < LineOf(products, picks[j])

\* every pick is its product's first cheapest candidate: the picks of Phase A
BaselinePicks(prods, ps) ==
    \A k \in 1..Len(ps) :
        LET cands == CandidatesOf(prods, ps[k])
            b     == FirstCheapest(cands)
        IN  b # 0 /\ ps[k][2] = <<cands[b][1], cands[b][2], cands[b][3]>>

\* an over-budget pool holds, and has returned, exactly its baseline
OverBudgetKeepsBaseline ==
    /\ (pc \in {"upgrade", "return", "done"} /\ baseline[pool] > budget) =>
          /\ subtotal = baseline[pool]
          /\ BaselinePicks(products, picks)
    /\ (t_sel.tag = "Selection" /\ baseline.tourist > TouristBudget) =>
          /\ t_sel.subtotal = Round2(baseline.tourist)
          /\ BaselinePicks(t_set, t_sel.picks)
    /\ (i_sel.tag = "Selection" /\ baseline.industry > IndustryBudget) =>
          /\ i_sel.subtotal = Round2(baseline.industry)
          /\ BaselinePicks(i_set, i_sel.picks)

\* every step of Phase B on an over-budget baseline stays in the loop or reaches the
\* return, with picks and subtotal untouched
OverBudgetRaisesNothing ==
    (pc = "upgrade" /\ baseline[pool] > budget)
        => (pc' \in {"upgrade", "return"} /\ picks' = picks /\ subtotal' = subtotal)

NamesNonAdvertiser(low) ==
    Contains(low, <<"non", "-", "advertiser">>) \/ Contains(low, <<"non", " ", "advertiser">>)

\* the picks of the Summit-Booth product, as option names in lower case
SummitPickNames == {Lower(picks[k][2][1]) : k \in {n \in 1..Len(picks) : IsSummitBooth(picks[n][1])}}

\* options that name neither kind of client, and all options of other products,
\* are among the candidates of every picked product
UnmarkedOptionsAreCandidates ==
    \A k \in 1..Len(picks) :
        LET product == ProductOf(products, picks[k][1])
            cands   == CandidatesOf(products, picks[k])
        IN  \A o \in 1..Len(product.price_options) :
                LET opt      == product.price_options[o]
                    opt_name == OptName(opt, picks[k][1])
                    pts      == price_points(opt)
                IN  (~IsSummitBooth(picks[k][1]) \/ ~Contains(Lower(opt_name), <<"advertiser">>))
                        => \A p \in 1..Len(pts) :
                              \E n \in 1..Len(cands) :
                                  cands[n][1] = opt_name /\ cands[n][2] = pts[p][1]

\* C23 as stated: for the Summit-Booth product, in Phase A and in every Phase B step,
\* the pick of an advertiser is never an option naming 'non-advertiser' or
\* 'non advertiser', and the pick of a non-advertiser is never an option naming
\* 'advertiser' without 'non-advertiser'; options naming neither are eligible for
\* both, and options of other products are never excluded.
C23_SummitExclusivityHyphenOnly ==
    pc \in {"baseline", "upgrade", "return"} =>
        /\ is_advertiser => \A low \in SummitPickNames : ~NamesNonAdvertiser(low)
        /\ ~is_advertiser =>
              \A low \in SummitPickNames :
                  ~(Contains(low, <<"advertiser">>)
                        /\ ~Contains(low, <<"non", "-", "advertiser">>))
        /\ UnmarkedOptionsAreCandidates

\* C23, amended: the pick of a non-advertiser is never an option naming 'advertiser'
\* without 'non-advertiser' and without 'non advertiser'; the rest as stated.
C23_SummitExclusivity ==
    pc \in {"baseline", "upgrade", "return"} =>
        /\ is_advertiser => \A low \in SummitPickNames : ~NamesNonAdvertiser(low)
        /\ ~is_advertiser =>
              \A low \in SummitPickNames :
                  ~(Contains(low, <<"advertiser">>) /\ ~NamesNonAdvertiser(low))
        /\ UnmarkedOptionsAreCandidates

\* Phase B has moved a non-advertiser to the option spelled 'non advertiser' of a
\* Summit Booth that also offers an advertiser rate and a rate naming neither
C23_Witness ==
    /\ pc = "upgrade"
    /\ ~is_advertiser
    /\ \E k \in 1..Len(picks) :
          /\ IsSummitBooth(picks[k][1])
          /\ picks[k][2][1] = BASIC_BOOTH_NON_ADVERTISER_SPACED
          /\ LET opts == ProductOf(products, picks[k][1]).price_options
             IN  /\ \E o \in 1..Len(opts) : OptName(opts[o], picks[k][1]) = BASIC_BOOTH_ADVERTISER
                 /\ \E o \in 1..Len(opts) : OptName(opts[o], picks[k][1]) = ILLINOIS_CVB_RATE


\* the product of picks[k] has a candidate dearer than the pick that still fits the budget
StillUpgradable(prods, ps, k, sub, cap) ==
    LET cands == CandidatesOf(prods, ps[k])
        line  == LineOf(prods, ps[k])
    IN  \E n \in 1..Len(cands) : cands[n][4] > line /\ sub - line + cands[n][4] <= cap

\* C24: at return no single product can still be upgraded within the budget: for
\* every picked product, every eligible candidate whose line price is above the final
\* pick's line price would bring the subtotal above the sub-budget.
C24_NoUpgradeLeftAtReturn ==
    pc = "return" => \A k \in 1..Len(picks) : ~StillUpgradable(products, picks, k, subtotal, budget)

\* the loop has ended after adopting upgrades, with dearer candidates left that no
\* longer fit
C24_Witness ==
    /\ pc = "return"
    /\ subtotal > baseline[pool]
    /\ subtotal <= budget
    /\ \E k \in 1..Len(picks) :
          \E n \in 1..Len(CandidatesOf(products, picks[k])) :
              CandidatesOf(products, picks[k])[n][4] > LineOf(products, picks[k])

\* the names of the picked products, in the order of picks
PickedNames(ps) == [k \in 1..Len(ps) |-> ps[k][1]]

\* C25: Phase B never adds or removes a product: the picked products at return are
\* those picked at the end of Phase A, and each product's line price is
\* non-decreasing across the passes.
C25_PhaseBKeepsProducts ==
    [][pc = "upgrade" =>
         /\ PickedNames(picks') = PickedNames(picks)
         /\ \A k \in 1..Len(picks) : LineOf(products, picks'[k]) >= LineOf(products, picks[k])]_vars

\* a pass has raised one pick and left another product's pick where Phase A put it
C25_Witness ==
    /\ pc = "return"
    /\ Len(picks) >= 2
    /\ \E i, j \in 1..Len(picks) :
          /\ \E n \in 1..Len(CandidatesOf(products, picks[i])) :
                CandidatesOf(products, picks[i])[n][4] < LineOf(products, picks[i])
          /\ \A n \in 1..Len(CandidatesOf(products, picks[j])) :
                CandidatesOf(products, picks[j])[n][4] >= LineOf(products, picks[j])


\* both runs have returned, the percentages sum to 100 and each pool's baseline was
\* within its sub-budget
BothPoolsWithinBudget ==
    /\ pc = "done"
    /\ tourist_pct + industry_pct = 100
    /\ baseline.tourist <= TouristBudget
    /\ baseline.industry <= IndustryBudget

LineMaps ==
    { <<>>,
      (L1X :> Num(1)) @@ (L3X :> Num(3)),
      (L1X :> Num(0)) @@ (L2X :> BadStr) @@ (L3X :> Num(4)),
      (L1X :> None) @@ (L2X :> Num(2)) @@ (<<"3", "x">> :> Num(3)),
      (L1X :> Num(-2)) @@ (<<>> :> Num(2)) }

LineTiers == {L1X, L2X, L3X, <<"1", "x">>, <<"2", "x">>, <<"3", "x">>, <<"base">>, <<>>}

LineBases == {0, Cent, USD(100), USD(450) + Cent}

InitLine ==
    /\ AllocIdle
    /\ heap = EmptyHeap
    /\ \E dm \in LineMaps, t \in LineTiers, b \in LineBases :
          call = [fn |-> "effective_line_price",
                  product |-> ProductRecord(EMAIL_BLAST, <<>>, dm),
                  tier_label |-> t, base_price |-> b, pc |-> "called", result |-> 0]

InLine(at) == call.fn = "effective_line_price" /\ call.pc = at

\* lines 89-90: a product without a duration map costs its unit price
LineReturnBase ==
    /\ InLine("called")
    /\ DOMAIN call.product.duration_quarter_map = {}
    /\ call' = [call EXCEPT !.result = call.base_price, !.pc = "returned"]
    /\ UNCHANGED <<allocVars, heap>>

\* lines 91-97: the unit price times the quarters of the tier
LineReturnScaled ==
    /\ InLine("called")
    /\ DOMAIN call.product.duration_quarter_map # {}
    /\ call' = [call EXCEPT
                  !.result = effective_line_price(call.product, call.tier_label,
                                                  call.base_price),
                  !.pc = "returned"]
    /\ UNCHANGED <<allocVars, heap>>

NextLine == LineReturnBase \/ LineReturnScaled

SpecLine == InitLine /\ [][NextLine]_vars

\* the duration multiplier m of the claim: the stored value for the upper-cased tier,
\* 1 without a map, without the tier, or with a value that is no number
Multiplier(dm, tier_label) ==
    IF DOMAIN dm = {} THEN 1
    ELSE IF Upper(tier_label) \notin DOMAIN dm THEN 1
    ELSE IF dm[Upper(tier_label)].tag # "num" THEN 1
    ELSE dm[Upper(tier_label)].v

\* C27: effective_line_price(product, tier, base) equals base * max(m, 1), m the
\* product's duration multiplier for the upper-cased tier label, counted as 1 when
\* the product has no duration map, when the tier is not in the map and when the
\* stored value cannot be parsed as a number; the line price is never below the unit
\* price for a non-negative base.
C27_LinePriceIsBaseTimesQuarters ==
    InLine("returned") =>
        LET m == Multiplier(call.product.duration_quarter_map, call.tier_label)
        IN  /\ call.result = call.base_price * (IF m >= 1 THEN m ELSE 1)
            /\ call.base_price >= 0 => call.result >= call.base_price

\* a positive unit price has been returned unchanged for a tier whose stored duration
\* is below one quarter
C27_Witness ==
    /\ InLine("returned")
    /\ call.base_price > 0
    /\ Upper(call.tier_label) \in DOMAIN call.product.duration_quarter_map
    /\ call.product.duration_quarter_map[Upper(call.tier_label)].tag = "num"
    /\ call.product.duration_quarter_map[Upper(call.tier_label)].v < 1
    /\ call.result = call.base_price


(***************************************************************************)
(* pricing.py: price_points called on its own                              *)
(***************************************************************************)
L12X == <<"1", "2", "X">>
L2X_6_ISSUES == <<"2", "X", " ", "(", "6", " ", "issues", ")">>
L1_5X == <<"1", ".", "5", "X">>
V1_2_3 == <<"v", "1", ".", "2", ".", "3">>
ANNUAL == <<"annual">>

\* tier-to-price maps in the order of their keys
TierMaps ==
    { <<>>,
      << <<L3X, USD(450)>>, <<L1X, USD(500)>> >>,
      << <<L12X, USD(4000)>>, <<L2X_6_ISSUES, USD(900)>> >>,
      << <<ANNUAL, USD(5)>>, <<L3X, USD(7)>>, <<<<"3", "x">>, USD(2)>>,
         <<V1_2_3, USD(1)>>, <<L1_5X, USD(3)>> >> }

PlanMaps ==
    { << <<L2X, USD(1100)>>, <<L1X, USD(2000)>> >>,
      << <<BASE, USD(9)>>, <<ANNUAL, USD(8)>>, <<L1X, USD(8)>> >> }

PricingMaps ==
    { << <<L2X, USD(100) + 3>>, <<L1X, USD(100)>> >>,
      << <<L2X_6_ISSUES, USD(60)>>, <<L3X, USD(70)>>, <<L12X, USD(80)>> >> }

\* opt.get("price_usd"): missing, None, a number, a string, a dict
PriceUsdValues == {Absent, None, Num(USD(1500)), BadStr} \cup {Dict(d) : d \in TierMaps}

PointOptions ==
    { Option(<<>>, pu, pp, pr) :
        pu \in PriceUsdValues,
        pp \in {Absent, None} \cup {Dict(d) : d \in PlanMaps},
        pr \in {Absent} \cup {Dict(d) : d \in PricingMaps} }

InitPoints ==
    /\ AllocIdle
    /\ heap = EmptyHeap
    /\ \E o \in PointOptions :
          call = [fn |-> "price_points", opt |-> o, pc |-> "called", result |-> <<>>]

InPoints(at) == call.fn = "price_points" /\ call.pc = at

\* line 79 on the items of the shape that was read
PointsReturn == call' = [call EXCEPT !.result = price_points(call.opt), !.pc = "returned"]

\* lines 60-61
PointsFromTierMap ==
    /\ InPoints("called")
    /\ call.opt.price_usd.tag = "dict"
    /\ PointsReturn
    /\ UNCHANGED <<allocVars, heap>>

\* lines 62-63
PointsFromPlanMap ==
    /\ InPoints("called")
    /\ call.opt.price_usd.tag # "dict"
    /\ call.opt.price_usd_by_plan.tag = "dict"
    /\ PointsReturn
    /\ UNCHANGED <<allocVars, heap>>

\* lines 64-65
PointsFromScalar ==
    /\ InPoints("called")
    /\ call.opt.price_usd.tag = "num"
    /\ call.opt.price_usd_by_plan.tag # "dict"
    /\ PointsReturn
    /\ UNCHANGED <<allocVars, heap>>

\* lines 66-67
PointsFromPricing ==
    /\ InPoints("called")
    /\ call.opt.price_usd.tag \notin {"dict", "num"}
    /\ call.opt.price_usd_by_plan.tag # "dict"
    /\ call.opt.pricing.tag = "dict"
    /\ PointsReturn
    /\ UNCHANGED <<allocVars, heap>>

\* lines 68-69
PointsFromNothing ==
    /\ InPoints("called")
    /\ call.opt.price_usd.tag \notin {"dict", "num"}
    /\ call.opt.price_usd_by_plan.tag # "dict"
    /\ call.opt.pricing.tag # "dict"
    /\ PointsReturn
    /\ UNCHANGED <<allocVars, heap>>

NextPoints ==
    \/ PointsFromTierMap
    \/ PointsFromPlanMap
    \/ PointsFromScalar
    \/ PointsFromPricing
    \/ PointsFromNothing

SpecPoints == InitPoints /\ [][NextPoints]_vars

IsNumChar(c) == c \in Digits \cup {"."}

\* the leading numeric token of a label: its first maximal run of digits and dots
LeadingToken(lbl) ==
    LET starts == {i \in 1..Len(lbl) : IsNumChar(lbl[i])}
    IN  IF starts = {} THEN <<>>
        ELSE LET s == CHOOSE i \in starts : \A j \in starts : i <= j
                 e == CHOOSE i \in s..Len(lbl) :
                         /\ \A j \in s..i : IsNumChar(lbl[j])
                         /\ i = Len(lbl) \/ ~IsNumChar(lbl[i + 1])
             IN  SubSeq(lbl, s, e)

\* the number the leading token stands for, +infinity when there is none
LeadingNumber(lbl) == LabelNumber(LeadingToken(lbl))

\* (leading number, price) of a is strictly below that of b
LeadingLess(a, b) ==
    LET x == LeadingNumber(a[1])
        y == LeadingNumber(b[1])
    IN  \/ ~x.inf /\ y.inf
        \/ ~x.inf /\ ~y.inf /\ x.v < y.v
        \/ x.inf = y.inf /\ x.v = y.v /\ a[2] < b[2]

SortedByLeadingNumber(r) == \A i, j \in 1..Len(r) : i < j => ~LeadingLess(r[j], r[i])

\* the label has digits or dots outside its leading numeric token
SeveralNumbers(lbl) == NumChars(lbl) # LeadingToken(lbl)

\* C28: price_points returns the (label, price) pairs of an option sorted ascending
\* by the leading numeric token of the label, labels without a parsable number last
\* (as +infinity), ties broken by ascending price; a malformed label never raises.
C28_SortedByLeadingNumericToken ==
    InPoints("returned") => SortedByLeadingNumber(call.result)

\* the order holds whenever no label has digits beyond its leading numeric token
C28_HoldsForSingleNumberLabels ==
    (InPoints("returned") /\ \A i \in 1..Len(call.result) : ~SeveralNumbers(call.result[i][1]))
        => SortedByLeadingNumber(call.result)

\* a map with a label of two numbers has been returned with '12X' before '2X (6 issues)'
C28_Witness ==
    /\ InPoints("returned")
    /\ \E i, j \in 1..Len(call.result) :
          /\ i < j
          /\ call.result[i][1] = L12X
          /\ call.result[j][1] = L2X_6_ISSUES

\* r holds exactly the pairs of items
SamePairs(r, items) ==
    /\ Len(r) = Len(items)
    /\ {r[i] : i \in 1..Len(r)} = {items[i] : i \in 1..Len(items)}

\* C29: price_points reads exactly one pricing shape of an option, in fixed priority:
\* the tier-to-price map 'price_usd', then the plan map 'price_usd_by_plan', then a
\* scalar 'price_usd' (one pair labelled 'base'), then the generic 'pricing' map; of
\* several shapes only the highest-priority one contributes price points, and with
\* none the result is the empty list.
C29_OneShapeInPriority ==
    InPoints("returned") =>
        LET pu == call.opt.price_usd
            pp == call.opt.price_usd_by_plan
            pr == call.opt.pricing
            r  == call.result
        IN  /\ pu.tag = "dict" => SamePairs(r, pu.items)
            /\ (pu.tag # "dict" /\ pp.tag = "dict") => SamePairs(r, pp.items)
            /\ (pu.tag = "num" /\ pp.tag # "dict") => r = << <<BASE, pu.v>> >>
            /\ (pu.tag \notin {"dict", "num"} /\ pp.tag # "dict" /\ pr.tag = "dict")
                  => SamePairs(r, pr.items)
            /\ (pu.tag \notin {"dict", "num"} /\ pp.tag # "dict" /\ pr.tag # "dict")
                  => r = <<>>

\* an option carrying all three maps has returned the pairs of its tier-to-price map
C29_Witness ==
    /\ InPoints("returned")
    /\ call.opt.price_usd.tag = "dict"
    /\ call.opt.price_usd_by_plan.tag = "dict"
    /\ call.opt.pricing.tag = "dict"
    /\ call.result # <<>>
    /\ SamePairs(call.result, call.opt.price_usd.items)
    /\ ~SamePairs(call.result, call.opt.price_usd_by_plan.items)


\* the reference windows of both families
ReferenceWindows == EXACT_WINDOWS \o NAMED_WINDOWS

\* the reference windows that contain the month-day
WindowsContaining(mmdd) ==
    {i \in 1..Len(ReferenceWindows) :
        ReferenceWindows[i].start <= mmdd /\ mmdd <= ReferenceWindows[i].end}

\* the call runs on the module's own tables
OnReferenceWindows == call.exact_windows = EXACT_WINDOWS /\ call.named_windows = NAMED_WINDOWS

\* the reference windows that are in the seasonal table and contain the chosen date
ReferenceWindowsAround ==
    {i \in WindowsContaining(mmdd_of(call.chosen_date)) :
        ReferenceWindows[i].label \in DOMAIN seasonal_map}

\* C30: the reference seasonal windows (EXACT_WINDOWS and NAMED_WINDOWS) are pairwise
\* non-overlapping, within each family and across the two families: every month-day
\* of the year lies in at most one window, so for any date at most one window can
\* supply the seasonal price and the result does not depend on the order in which
\* the windows are checked.
C30_ReferenceWindowsDisjoint ==
    /\ \A mmdd \in 101..1231 : Cardinality(WindowsContaining(mmdd)) <= 1
    /\ (SeasonEnded /\ OnReferenceWindows) =>
          /\ Cardinality(ReferenceWindowsAround) <= 1
          /\ ReferenceWindowsAround = {} => call.result = None
          /\ \A i \in ReferenceWindowsAround :
                call.result = WindowPrice(seasonal_map, ReferenceWindows[i].label,
                                          call.option_name)

\* a table with windows of both families has priced March 1 from the one window,
\* a named one, that contains it
C30_Witness ==
    /\ SeasonEnded
    /\ OnReferenceWindows
    /\ "4/15-6/14" \in DOMAIN seasonal_map
    /\ call.result.tag = "num"
    /\ \E i \in ReferenceWindowsAround :
          /\ ReferenceWindows[i].label = "After Valentine's Day"
          /\ call.result.v = seasonal_map[ReferenceWindows[i].label][call.option_name]

=============================================================================
